---- MODULE Spec2Model ----
(***************************************************************************)
(* The recursive-descent parser of src/src/parser.ts as a state machine.   *)
(* The call stack of the parse functions is the variable `stack`: each     *)
(* entry names a parse function (or the rest of one after a call it made), *)
(* and one action runs the entry on top of the stack up to its next call.  *)
(* Strings that the program builds by concatenation (error messages) are   *)
(* sequences of their parts.                                               *)
(***************************************************************************)
EXTENDS Integers, Sequences, FiniteSets, TLC

VARIABLES
  tokens,                  \* the collection the Cursor was constructed over
  position,                \* Cursor.position
  line,                    \* Parser.line
  procedureStack,          \* Parser.procedureStack (front = innermost)
  currentLevel,            \* Parser.currentLevel
  currentVariableAddress,  \* Parser.currentVariableAddress
  shouldAddError,          \* Parser.shouldAddError
  correctTokens,           \* Parser.correctTokens
  variables,               \* Parser.variables
  procedures,              \* Parser.procedures
  errors,                  \* Parser.errors
  stack,                   \* the call stack below parse()
  thrown,                  \* the exception in flight, or None
  pc,                      \* position inside main() and parse(): "tokenize",
                           \* "lexed", "start", "try", "done"
  result,                  \* what parse() returned, None before it returns
  source,                  \* the content of the file SOURCE_PATH
  lexer,                   \* the Lexer: its cursor's position, its line, and
                           \* the tokens and errors of tokenize()
  success,                 \* what tokenize() returned, None before it returns
  DYD,                     \* the content of the file DYD_PATH (its lines)
  ERR                      \* the content of the file ERR_PATH (its lines)

vars == <<tokens, position, line, procedureStack, currentLevel,
          currentVariableAddress, shouldAddError, correctTokens, variables,
          procedures, errors, stack, thrown, pc, result,
          source, lexer, success, DYD, ERR>>

None == "none"
Undefined == [type |-> "undefined", value |-> "undefined"]

(***************************************************************************)
(* Tokens                                                                  *)
(***************************************************************************)
Tok(type, value) == [type |-> type, value |-> value]

tBEGIN    == Tok("BEGIN", "begin")
tEND      == Tok("END", "end")
tINTEGER  == Tok("INTEGER", "integer")
tIF       == Tok("IF", "if")
tTHEN     == Tok("THEN", "then")
tELSE     == Tok("ELSE", "else")
tFUNCTION == Tok("FUNCTION", "function")
tREAD     == Tok("READ", "read")
tWRITE    == Tok("WRITE", "write")
tEQUAL    == Tok("EQUAL", "=")
tNOT_EQUAL == Tok("NOT_EQUAL", "<>")
tLESS_THAN_OR_EQUAL == Tok("LESS_THAN_OR_EQUAL", "<=")
tLESS_THAN == Tok("LESS_THAN", "<")
tGREATER_THAN_OR_EQUAL == Tok("GREATER_THAN_OR_EQUAL", ">=")
tGREATER_THAN == Tok("GREATER_THAN", ">")
tSUBTRACT == Tok("SUBTRACT", "-")
tMULTIPLY == Tok("MULTIPLY", "*")
tASSIGN   == Tok("ASSIGN", ":=")
tLEFT_PARENTHESES  == Tok("LEFT_PARENTHESES", "(")
tRIGHT_PARENTHESES == Tok("RIGHT_PARENTHESES", ")")
tSEMICOLON == Tok("SEMICOLON", ";")
tEOLN     == Tok("END_OF_LINE", "EOLN")
tEOF      == Tok("END_OF_FILE", "EOF")
Id(name)  == Tok("IDENTIFIER", name)
Num(text) == Tok("CONSTANT", text)

translateToken(type) ==
  CASE type = "BEGIN" -> "'begin'"
    [] type = "END" -> "'end'"
    [] type = "INTEGER" -> "'integer'"
    [] type = "IF" -> "'if'"
    [] type = "THEN" -> "'then'"
    [] type = "ELSE" -> "'else'"
    [] type = "FUNCTION" -> "'function'"
    [] type = "READ" -> "'read'"
    [] type = "WRITE" -> "'write'"
    [] type = "IDENTIFIER" -> "identifier"
    [] type = "CONSTANT" -> "constant"
    [] type = "EQUAL" -> "'='"
    [] type = "NOT_EQUAL" -> "'<>'"
    [] type = "LESS_THAN_OR_EQUAL" -> "'<='"
    [] type = "LESS_THAN" -> "'<'"
    [] type = "GREATER_THAN_OR_EQUAL" -> "'>='"
    [] type = "GREATER_THAN" -> "'>'"
    [] type = "SUBTRACT" -> "'-'"
    [] type = "MULTIPLY" -> "'*'"
    [] type = "ASSIGN" -> "':='"
    [] type = "LEFT_PARENTHESES" -> "'('"
    [] type = "RIGHT_PARENTHESES" -> "')'"
    [] type = "SEMICOLON" -> "';'"
    [] type = "END_OF_LINE" -> "EOLN"
    [] type = "END_OF_FILE" -> "EOF"

(***************************************************************************)
(* The parser's fields as one record, so that the private methods can be   *)
(* written as functions from a parser state to a parser state.             *)
(***************************************************************************)
St ==
  [position |-> position, line |-> line, procedureStack |-> procedureStack,
   currentLevel |-> currentLevel,
   currentVariableAddress |-> currentVariableAddress,
   shouldAddError |-> shouldAddError, correctTokens |-> correctTokens,
   variables |-> variables, procedures |-> procedures, errors |-> errors,
   stack |-> stack, thrown |-> thrown]

Commit(s) ==
  /\ position' = s.position
  /\ line' = s.line
  /\ procedureStack' = s.procedureStack
  /\ currentLevel' = s.currentLevel
  /\ currentVariableAddress' = s.currentVariableAddress
  /\ shouldAddError' = s.shouldAddError
  /\ correctTokens' = s.correctTokens
  /\ variables' = s.variables
  /\ procedures' = s.procedures
  /\ errors' = s.errors
  /\ stack' = s.stack
  /\ thrown' = s.thrown
  /\ UNCHANGED <<tokens, pc, result, source, lexer, success, DYD, ERR>>

(***************************************************************************)
(* Cursor                                                                  *)
(***************************************************************************)
isOpen(s) == s.position < Len(tokens)

\* collection[position]: undefined once the cursor is exhausted
current(s) == IF isOpen(s) THEN tokens[s.position + 1] ELSE Undefined

consume(s) == [s EXCEPT !.position = s.position + 1]

(***************************************************************************)
(* Errors                                                                  *)
(***************************************************************************)
\* a JavaScript exception leaves every frame below parse()
Throw(s, message) == [s EXCEPT !.thrown = message, !.stack = <<>>]

\* reading .type or .value of undefined
TypeErrorMessage(property) ==
  <<"Cannot read properties of undefined (reading '", property, "')">>

throwError(s, error) == Throw(s, <<"Line ", ToString(s.line), ": ">> \o error)

\* addError without the suppression flag: every failed check is recorded
addError_uncoalesced(s, error) ==
  [s EXCEPT !.shouldAddError = FALSE,
            !.errors = Append(s.errors,
                               <<"Line ", ToString(s.line), ": ">> \o error)]

addError(s, error) ==
  IF ~s.shouldAddError
    THEN s
    ELSE [s EXCEPT !.shouldAddError = FALSE,
                   !.errors = Append(s.errors,
                                      <<"Line ", ToString(s.line), ": ">> \o error)]

(***************************************************************************)
(* Token consumption                                                       *)
(***************************************************************************)
RECURSIVE goToNextLine(_)
goToNextLine(s) ==
  IF isOpen(s) /\ current(s).type = "END_OF_LINE"
    THEN goToNextLine([s EXCEPT !.position = s.position + 1,
                                !.correctTokens = Append(s.correctTokens, current(s)),
                                !.line = s.line + 1,
                                !.shouldAddError = TRUE])
    ELSE s

\* consumeToken that does not record the token it takes
consumeToken_unrecorded(s) == goToNextLine(consume(goToNextLine(s)))

consumeToken(s) ==
  LET s1 == goToNextLine(s)
      s2 == [consume(s1) EXCEPT !.correctTokens = Append(s1.correctTokens, current(s1))]
  IN  goToNextLine(s2)

\* the token consumeToken(s) returns
consumedToken(s) == current(goToNextLine(s))

\* hasType reads cursor.current.type: a TypeError when the cursor is exhausted
hasTypeThrows(s) == ~isOpen(s)
hasType(s, expectation) == current(s).type = expectation

match(s, expectation, message) ==
  IF s.thrown # None THEN s
  ELSE IF hasTypeThrows(s) THEN Throw(s, TypeErrorMessage("type"))
  ELSE LET s1 == IF ~hasType(s, expectation)
                   THEN addError(s, IF message = None
                                      THEN <<"Expect ", translateToken(expectation),
                                             ", but got '", current(s).value, "'">>
                                      ELSE message)
                   ELSE s
       IN  consumeToken(s1)

\* the value of the token that match(s, ...) or consumeToken(s) returns
consumedValue(s) == consumedToken(s).value

(***************************************************************************)
(* Symbol tables                                                           *)
(***************************************************************************)
\* Array.prototype.find over the indices that satisfy the test: the first
\* such index, or 0 when find returns undefined
find(hits) == IF hits = {} THEN 0 ELSE CHOOSE i \in hits : \A j \in hits : i <= j

\* this.procedureStack[0] ?? ""
procedureStackTop(s) == IF s.procedureStack = <<>> THEN "" ELSE Head(s.procedureStack)

findDuplicateVariable(s, name) ==
  find({i \in 1..Len(s.variables) :
         /\ s.variables[i].name = name
         /\ s.variables[i].kind = 0
         /\ s.variables[i].level = s.currentLevel})

findVariable(s, name) ==
  find({i \in 1..Len(s.variables) :
         /\ s.variables[i].name = name
         /\ s.variables[i].kind = 0
         /\ s.variables[i].level <= s.currentLevel})

findDuplicateParameter(s, name) ==
  find({i \in 1..Len(s.variables) :
         /\ s.variables[i].name = name
         /\ s.variables[i].kind = 1
         /\ s.variables[i].level = s.currentLevel + 1})

findDuplicateProcedure(s, name) ==
  find({i \in 1..Len(s.procedures) :
         s.procedures[i].name = name /\ s.procedures[i].level = s.currentLevel + 1})

\* findProcedure that accepts a record only up to the current level
findProcedure_currentLevel(s, name) ==
  find({i \in 1..Len(s.procedures) :
         s.procedures[i].name = name /\ s.procedures[i].level <= s.currentLevel})

findProcedure(s, name) ==
  find({i \in 1..Len(s.procedures) :
         s.procedures[i].name = name /\ s.procedures[i].level <= s.currentLevel + 1})

\* registerVariable that reports the duplicate and adds the record all the same
registerVariable_addsDuplicate(s, name) ==
  LET s0 == IF findDuplicateVariable(s, name) # 0
              THEN addError(s, <<"Variable '", name, "' has already been declared">>)
              ELSE s
      address == s0.currentVariableAddress + 1
  IN  [s0 EXCEPT !.currentVariableAddress = address,
                 !.variables = Append(s0.variables,
                    [name |-> name, procedure |-> procedureStackTop(s0),
                     kind |-> 0, type |-> "integer",
                     level |-> s0.currentLevel, address |-> address])]

registerVariable(s, name) ==
  IF findDuplicateVariable(s, name) # 0
    THEN addError(s, <<"Variable '", name, "' has already been declared">>)
    ELSE
      LET address == s.currentVariableAddress + 1
          s1 == [s EXCEPT !.currentVariableAddress = address,
                          !.variables = Append(s.variables,
                             [name |-> name, procedure |-> procedureStackTop(s),
                              kind |-> 0, type |-> "integer",
                              level |-> s.currentLevel, address |-> address])]
          p == findProcedure(s1, procedureStackTop(s1))
      IN  IF p = 0 THEN s1
          ELSE [s1 EXCEPT
                  !.procedures[p].firstVariableAddress =
                     IF @ = -1 THEN address ELSE @,
                  !.procedures[p].lastVariableAddress = address]

\* registerParameter that gives the parameter the current address without
\* advancing the counter
registerParameter_sameAddress(s, name) ==
  IF findDuplicateParameter(s, name) # 0
    THEN addError(s, <<"Parameter '", name, "' has already been declared">>)
    ELSE [s EXCEPT !.variables = Append(s.variables,
                       [name |-> name, procedure |-> procedureStackTop(s),
                        kind |-> 1, type |-> "integer",
                        level |-> s.currentLevel + 1,
                        address |-> s.currentVariableAddress])]

registerParameter(s, name) ==
  IF findDuplicateParameter(s, name) # 0
    THEN addError(s, <<"Parameter '", name, "' has already been declared">>)
    ELSE
      LET address == s.currentVariableAddress + 1
      IN  [s EXCEPT !.currentVariableAddress = address,
                    !.variables = Append(s.variables,
                       [name |-> name, procedure |-> procedureStackTop(s),
                        kind |-> 1, type |-> "integer",
                        level |-> s.currentLevel + 1, address |-> address])]

\* registerProcedure that reports the duplicate and adds the record all the same
registerProcedure_addsDuplicate(s, name) ==
  LET s0 == IF findDuplicateProcedure(s, name) # 0
              THEN addError(s, <<"Procedure '", name, "' has already been declared">>)
              ELSE s
  IN  [s0 EXCEPT !.procedures = Append(s0.procedures,
                      [name |-> name, type |-> "integer",
                       level |-> s0.currentLevel + 1,
                       firstVariableAddress |-> -1,
                       lastVariableAddress |-> -1]),
                 !.procedureStack = <<name>> \o s0.procedureStack]

registerProcedure(s, name) ==
  IF findDuplicateProcedure(s, name) # 0
    THEN addError(s, <<"Procedure '", name, "' has already been declared">>)
    ELSE [s EXCEPT !.procedures = Append(s.procedures,
                      [name |-> name, type |-> "integer",
                       level |-> s.currentLevel + 1,
                       firstVariableAddress |-> -1,
                       lastVariableAddress |-> -1]),
                   !.procedureStack = <<name>> \o s.procedureStack]

\* hasVariable and hasProcedure read cursor.current.value
hasVariable(s) == findVariable(s, current(s).value) # 0
hasProcedure(s) == findProcedure(s, current(s).value) # 0

(***************************************************************************)
(* The parse functions.  Top(f) holds when f is the function to run next;  *)
(* Popped is the parser state with that entry taken off the call stack;    *)
(* Call(s, fs) makes the functions fs the next to run, in order.           *)
(***************************************************************************)
Top(f) == pc = "try" /\ thrown = None /\ stack # <<>> /\ Head(stack) = f

Popped == [St EXCEPT !.stack = Tail(stack)]

Call(s, fs) == IF s.thrown # None THEN s ELSE [s EXCEPT !.stack = fs \o s.stack]

\* if (this.hasType(type)) Then else Else, with the TypeError of an
\* exhausted cursor
ifHasType(s, type, Then, Else) ==
  IF hasTypeThrows(s) THEN Throw(s, TypeErrorMessage("type"))
  ELSE IF hasType(s, type) THEN Then ELSE Else

parseProgram ==
  /\ Top("parseProgram")
  /\ Commit(Call(Popped, <<"parseSubprogram", "parseProgram_eof">>))

parseProgram_eof ==
  /\ Top("parseProgram_eof")
  /\ Commit(match(Popped, "END_OF_FILE", None))

parseSubprogram ==
  /\ Top("parseSubprogram")
  /\ Commit(Call(match(Popped, "BEGIN", None),
                 <<"parseDeclarations", "parseExecutions", "parseSubprogram_end">>))

parseSubprogram_end ==
  /\ Top("parseSubprogram_end")
  /\ Commit(match(Popped, "END", None))

\* parseDeclarations that accepts a body without any declaration
parseDeclarations_optional ==
  /\ Top("parseDeclarations")
  /\ Commit(ifHasType(Popped, "INTEGER",
                      Call(Popped, <<"parseDeclaration", "parseDeclarations_">>),
                      Popped))

parseDeclarations ==
  /\ Top("parseDeclarations")
  /\ Commit(Call(Popped, <<"parseDeclaration", "parseDeclarations_">>))

\* parseDeclarations_ that calls itself without parsing a declaration first
parseDeclarations__again ==
  /\ Top("parseDeclarations_")
  /\ Commit(ifHasType(Popped, "INTEGER",
                      Call(Popped, <<"parseDeclarations_", "parseDeclarations_">>),
                      Popped))

parseDeclarations_ ==
  /\ Top("parseDeclarations_")
  /\ Commit(ifHasType(Popped, "INTEGER",
                      Call(Popped, <<"parseDeclaration", "parseDeclarations_">>),
                      Popped))

parseDeclaration ==
  /\ Top("parseDeclaration")
  /\ Commit(Call(match(Popped, "INTEGER", None),
                 <<"parseDeclaration_", "parseDeclaration_semicolon">>))

parseDeclaration_semicolon ==
  /\ Top("parseDeclaration_semicolon")
  /\ Commit(match(Popped, "SEMICOLON", None))

parseDeclaration_ ==
  /\ Top("parseDeclaration_")
  /\ Commit(
       ifHasType(Popped, "IDENTIFIER", Call(Popped, <<"parseVariableDeclaration">>),
       ifHasType(Popped, "FUNCTION", Call(Popped, <<"parseProcedureDeclaration">>),
         throwError(consumeToken(Popped),
                    <<"'", consumedValue(Popped), "' is not a valid variable name">>))))

parseVariableDeclaration ==
  /\ Top("parseVariableDeclaration")
  /\ LET s1 == match(Popped, "IDENTIFIER", None)
     IN  Commit(IF s1.thrown # None THEN s1
                ELSE registerVariable(s1, consumedValue(Popped)))

parseVariable ==
  /\ Top("parseVariable")
  /\ LET s1 == match(Popped, "IDENTIFIER", None)
         value == consumedValue(Popped)
     IN  Commit(IF s1.thrown # None THEN s1
                ELSE IF findVariable(s1, value) = 0
                  THEN addError(s1, <<"Undefined variable '", value, "'">>)
                  ELSE s1)

parseProcedureDeclaration ==
  /\ Top("parseProcedureDeclaration")
  /\ Commit(Call(match(Popped, "FUNCTION", None),
                 <<"parseProcedureNameDeclaration", "parseProcedureDeclaration_parameter">>))

parseProcedureDeclaration_parameter ==
  /\ Top("parseProcedureDeclaration_parameter")
  /\ Commit(Call(match(Popped, "LEFT_PARENTHESES", None),
                 <<"parseParameterDeclaration", "parseProcedureDeclaration_body">>))

parseProcedureDeclaration_body ==
  /\ Top("parseProcedureDeclaration_body")
  /\ Commit(Call(match(match(Popped, "RIGHT_PARENTHESES", <<"Unmatched '('">>),
                       "SEMICOLON", None),
                 <<"parseProcedureBody">>))

parseProcedureNameDeclaration ==
  /\ Top("parseProcedureNameDeclaration")
  /\ LET s1 == match(Popped, "IDENTIFIER", None)
     IN  Commit(IF s1.thrown # None THEN s1
                ELSE registerProcedure(s1, consumedValue(Popped)))

parseProcedureName ==
  /\ Top("parseProcedureName")
  /\ LET s1 == match(Popped, "IDENTIFIER", None)
         value == consumedValue(Popped)
     IN  Commit(IF s1.thrown # None THEN s1
                ELSE IF findProcedure(s1, value) = 0
                  THEN addError(s1, <<"Undefined procedure '", value, "'">>)
                  ELSE s1)

parseParameterDeclaration ==
  /\ Top("parseParameterDeclaration")
  /\ LET s1 == match(Popped, "IDENTIFIER", None)
     IN  Commit(IF s1.thrown # None THEN s1
                ELSE registerParameter(s1, consumedValue(Popped)))

\* parseProcedureBody that does not raise the level on entering the body
parseProcedureBody_sameLevel ==
  /\ Top("parseProcedureBody")
  /\ Commit(Call(match(Popped, "BEGIN", None),
                 <<"parseDeclarations", "parseExecutions", "parseProcedureBody_end">>))

parseProcedureBody ==
  /\ Top("parseProcedureBody")
  /\ Commit(Call(match([Popped EXCEPT !.currentLevel = @ + 1], "BEGIN", None),
                 <<"parseDeclarations", "parseExecutions", "parseProcedureBody_end">>))

parseProcedureBody_end ==
  /\ Top("parseProcedureBody_end")
  /\ LET s1 == match(Popped, "END", None)
     IN  Commit(IF s1.thrown # None THEN s1
                ELSE [s1 EXCEPT !.currentLevel = @ - 1,
                                !.procedureStack = IF @ = <<>> THEN @ ELSE Tail(@)])

parseExecutions ==
  /\ Top("parseExecutions")
  /\ Commit(Call(Popped, <<"parseExecution", "parseExecutions_">>))

parseExecutions_ ==
  /\ Top("parseExecutions_")
  /\ Commit(ifHasType(Popped, "SEMICOLON",
                      Call(match(Popped, "SEMICOLON", None),
                           <<"parseExecution", "parseExecutions_">>),
                      Popped))

\* parseExecution that takes 'end' for an empty execution
parseExecution_emptyBeforeEnd ==
  /\ Top("parseExecution")
  /\ Commit(
       ifHasType(Popped, "READ", Call(Popped, <<"parseRead">>),
       ifHasType(Popped, "WRITE", Call(Popped, <<"parseWrite">>),
       ifHasType(Popped, "IDENTIFIER", Call(Popped, <<"parseAssignment">>),
       ifHasType(Popped, "IF", Call(Popped, <<"parseCondition">>),
       ifHasType(Popped, "END", Popped,
         throwError(consumeToken(Popped),
                    <<"Expect executions, but got '", consumedValue(Popped),
                      "'. Please move all declarations to the beginning of the procedure">>)))))))

parseExecution ==
  /\ Top("parseExecution")
  /\ Commit(
       ifHasType(Popped, "READ", Call(Popped, <<"parseRead">>),
       ifHasType(Popped, "WRITE", Call(Popped, <<"parseWrite">>),
       ifHasType(Popped, "IDENTIFIER", Call(Popped, <<"parseAssignment">>),
       ifHasType(Popped, "IF", Call(Popped, <<"parseCondition">>),
         throwError(consumeToken(Popped),
                    <<"Expect executions, but got '", consumedValue(Popped),
                      "'. Please move all declarations to the beginning of the procedure">>))))))

parseRead ==
  /\ Top("parseRead")
  /\ Commit(Call(match(match(Popped, "READ", None), "LEFT_PARENTHESES", None),
                 <<"parseVariable", "parseRead_close">>))

parseRead_close ==
  /\ Top("parseRead_close")
  /\ Commit(match(Popped, "RIGHT_PARENTHESES", <<"Unmatched '('">>))

parseWrite ==
  /\ Top("parseWrite")
  /\ Commit(Call(match(match(Popped, "WRITE", None), "LEFT_PARENTHESES", None),
                 <<"parseVariable", "parseWrite_close">>))

parseWrite_close ==
  /\ Top("parseWrite_close")
  /\ Commit(match(Popped, "RIGHT_PARENTHESES", <<"Unmatched '('">>))

\* this.match(TokenType.ASSIGN); this.parseArithmeticExpression();
assignmentRest(s) == Call(match(s, "ASSIGN", None), <<"parseArithmeticExpression">>)

parseAssignment ==
  /\ Top("parseAssignment")
  /\ Commit(
       IF ~isOpen(Popped) THEN Throw(Popped, TypeErrorMessage("value"))
       ELSE IF hasVariable(Popped)
         THEN Call(Popped, <<"parseVariable", "parseAssignment_assign">>)
       ELSE IF hasProcedure(Popped)
         THEN Call(Popped, <<"parseProcedureName", "parseAssignment_assign">>)
       ELSE assignmentRest(
              addError(consumeToken(Popped),
                       <<"Undefined variable or procedure '", consumedValue(Popped), "'">>)))

parseAssignment_assign ==
  /\ Top("parseAssignment_assign")
  /\ Commit(assignmentRest(Popped))

parseArithmeticExpression ==
  /\ Top("parseArithmeticExpression")
  /\ Commit(Call(Popped, <<"parseTerm", "parseArithmeticExpression_">>))

parseArithmeticExpression_ ==
  /\ Top("parseArithmeticExpression_")
  /\ Commit(ifHasType(Popped, "SUBTRACT",
                      Call(match(Popped, "SUBTRACT", None),
                           <<"parseTerm", "parseArithmeticExpression_">>),
                      Popped))

parseTerm ==
  /\ Top("parseTerm")
  /\ Commit(Call(Popped, <<"parseFactor", "parseTerm_">>))

parseTerm_ ==
  /\ Top("parseTerm_")
  /\ Commit(ifHasType(Popped, "MULTIPLY",
                      Call(match(Popped, "MULTIPLY", None),
                           <<"parseFactor", "parseTerm_">>),
                      Popped))

parseFactor ==
  /\ Top("parseFactor")
  /\ Commit(
       ifHasType(Popped, "CONSTANT", match(Popped, "CONSTANT", None),
       ifHasType(Popped, "IDENTIFIER",
         IF hasVariable(Popped) THEN Call(Popped, <<"parseVariable">>)
         ELSE IF hasProcedure(Popped) THEN Call(Popped, <<"parseProcedureCall">>)
         ELSE throwError(consumeToken(Popped),
                         <<"Undefined variable or procedure '", consumedValue(Popped), "'">>),
         throwError(consumeToken(Popped),
                    <<"Expect variable, procedure or constant, but got '",
                      consumedValue(Popped), "'">>))))

parseProcedureCall ==
  /\ Top("parseProcedureCall")
  /\ Commit(Call(Popped, <<"parseProcedureName", "parseProcedureCall_argument">>))

parseProcedureCall_argument ==
  /\ Top("parseProcedureCall_argument")
  /\ Commit(Call(match(Popped, "LEFT_PARENTHESES", None),
                 <<"parseArithmeticExpression", "parseProcedureCall_close">>))

parseProcedureCall_close ==
  /\ Top("parseProcedureCall_close")
  /\ Commit(match(Popped, "RIGHT_PARENTHESES", <<"Unmatched '('">>))

parseCondition ==
  /\ Top("parseCondition")
  /\ Commit(Call(match(Popped, "IF", None),
                 <<"parseConditionExpression", "parseCondition_then">>))

parseCondition_then ==
  /\ Top("parseCondition_then")
  /\ Commit(Call(match(Popped, "THEN", None),
                 <<"parseExecution", "parseCondition_else">>))

parseCondition_else ==
  /\ Top("parseCondition_else")
  /\ Commit(Call(match(Popped, "ELSE", None), <<"parseExecution">>))

parseConditionExpression ==
  /\ Top("parseConditionExpression")
  /\ Commit(Call(Popped, <<"parseArithmeticExpression", "parseOperator",
                           "parseArithmeticExpression">>))

RelationalOperators ==
  {"EQUAL", "NOT_EQUAL", "LESS_THAN", "LESS_THAN_OR_EQUAL",
   "GREATER_THAN", "GREATER_THAN_OR_EQUAL"}

parseOperator ==
  /\ Top("parseOperator")
  /\ Commit(
       IF hasTypeThrows(Popped) THEN Throw(Popped, TypeErrorMessage("type"))
       ELSE IF current(Popped).type \in RelationalOperators
         THEN match(Popped, current(Popped).type, None)
       ELSE addError(consumeToken(Popped),
                     <<consumedValue(Popped), " is not a valid operator">>))

(***************************************************************************)
(* parse(): the try block, its two exits, and the catch clause             *)
(***************************************************************************)
parse ==
  /\ pc = "start"
  /\ pc' = "try"
  /\ stack' = <<"parseProgram">>
  /\ UNCHANGED <<tokens, position, line, procedureStack, currentLevel,
                 currentVariableAddress, shouldAddError, correctTokens,
                 variables, procedures, errors, thrown, result,
                 source, lexer, success, DYD, ERR>>

\* parse that returns true whenever parseProgram returns
parseReturn_true ==
  /\ pc = "try" /\ thrown = None /\ stack = <<>>
  /\ result' = TRUE
  /\ pc' = "done"
  /\ ERR' = errors
  /\ UNCHANGED <<tokens, position, line, procedureStack, currentLevel,
                 currentVariableAddress, shouldAddError, correctTokens,
                 variables, procedures, errors, stack, thrown,
                 source, lexer, success, DYD>>

\* return this.errors.length === 0; finally { Parser.writeErrors(this.errors) }
parseReturn ==
  /\ pc = "try" /\ thrown = None /\ stack = <<>>
  /\ result' = (errors = <<>>)
  /\ pc' = "done"
  /\ ERR' = errors
  /\ UNCHANGED <<tokens, position, line, procedureStack, currentLevel,
                 currentVariableAddress, shouldAddError, correctTokens,
                 variables, procedures, errors, stack, thrown,
                 source, lexer, success, DYD>>

\* a catch clause that replaces the error list by the fatal entry
parseCatch_replaces ==
  /\ pc = "try" /\ thrown # None
  /\ errors' = <<thrown \o <<" [FATAL]">>>>
  /\ thrown' = None
  /\ result' = FALSE
  /\ pc' = "done"
  /\ ERR' = errors'
  /\ UNCHANGED <<tokens, position, line, procedureStack, currentLevel,
                 currentVariableAddress, shouldAddError, correctTokens,
                 variables, procedures, stack,
                 source, lexer, success, DYD>>

\* catch (error) { this.errors.push(error.message + " [FATAL]"); return false; }
\* finally { Parser.writeErrors(this.errors) }
parseCatch ==
  /\ pc = "try" /\ thrown # None
  /\ errors' = Append(errors, thrown \o <<" [FATAL]">>)
  /\ thrown' = None
  /\ result' = FALSE
  /\ pc' = "done"
  /\ ERR' = errors'
  /\ UNCHANGED <<tokens, position, line, procedureStack, currentLevel,
                 currentVariableAddress, shouldAddError, correctTokens,
                 variables, procedures, stack,
                 source, lexer, success, DYD>>

(***************************************************************************)
(* The lexer of src/src/lexer.ts.  A text is the sequence of its           *)
(* characters; the value of a token of the lexer is the text it was read   *)
(* from.  The texts that the parser's tokens carry are written as strings: *)
(* Spelling gives the characters of each of them.                          *)
(***************************************************************************)
Spelling ==
  ("begin" :> <<"b", "e", "g", "i", "n">>)
    @@ ("end" :> <<"e", "n", "d">>)
    @@ ("integer" :> <<"i", "n", "t", "e", "g", "e", "r">>)
    @@ ("if" :> <<"i", "f">>)
    @@ ("then" :> <<"t", "h", "e", "n">>)
    @@ ("else" :> <<"e", "l", "s", "e">>)
    @@ ("function" :> <<"f", "u", "n", "c", "t", "i", "o", "n">>)
    @@ ("read" :> <<"r", "e", "a", "d">>)
    @@ ("write" :> <<"w", "r", "i", "t", "e">>)
    @@ ("a" :> <<"a">>)
    @@ ("b" :> <<"b">>)
    @@ ("f" :> <<"f">>)
    @@ ("g" :> <<"g">>)
    @@ ("k" :> <<"k">>)
    @@ ("n" :> <<"n">>)
    @@ ("x" :> <<"x">>)
    @@ ("0" :> <<"0">>)
    @@ ("1" :> <<"1">>)
    @@ ("2" :> <<"2">>)
    @@ ("=" :> <<"=">>)
    @@ ("<>" :> <<"<", ">">>)
    @@ ("<=" :> <<"<", "=">>)
    @@ ("<" :> <<"<">>)
    @@ (">=" :> <<">", "=">>)
    @@ (">" :> <<">">>)
    @@ ("-" :> <<"-">>)
    @@ ("*" :> <<"*">>)
    @@ (":=" :> <<":", "=">>)
    @@ ("(" :> <<"(">>)
    @@ (")" :> <<")">>)
    @@ (";" :> <<";">>)
    @@ ("EOLN" :> <<"E", "O", "L", "N">>)
    @@ ("EOF" :> <<"E", "O", "F">>)
    @@ ("BEGIN" :> <<"B", "E", "G", "I", "N">>)
    @@ ("END" :> <<"E", "N", "D">>)
    @@ ("abcdefghijklmnop" :>
          <<"a", "b", "c", "d", "e", "f", "g", "h", "i", "j", "k", "l", "m", "n",
            "o", "p">>)

\* the string whose characters are chars
Text(chars) == CHOOSE t \in DOMAIN Spelling : Spelling[t] = chars

LowerCase ==
  <<"a", "b", "c", "d", "e", "f", "g", "h", "i", "j", "k", "l", "m", "n",
   "o", "p", "q", "r", "s", "t", "u", "v", "w", "x", "y", "z">>
UpperCase ==
  <<"A", "B", "C", "D", "E", "F", "G", "H", "I", "J", "K", "L", "M", "N",
   "O", "P", "Q", "R", "S", "T", "U", "V", "W", "X", "Y", "Z">>

Letters == {LowerCase[i] : i \in 1..26} \cup {UpperCase[i] : i \in 1..26}
Digits == {"0", "1", "2", "3", "4", "5", "6", "7", "8", "9"}

\* the characters that String.prototype.trim removes
Whitespace == {" ", "\t", "\n", "\r"}

MAX_IDENTIFIER_LENGTH == 16

Least(S) == CHOOSE i \in S : \A j \in S : i <= j
Greatest(S) == CHOOSE i \in S : \A j \in S : j <= i

trim(text) ==
  LET kept == {i \in 1..Len(text) : text[i] \notin Whitespace}
  IN  IF kept = {} THEN <<>> ELSE SubSeq(text, Least(kept), Greatest(kept))

padStart(text, targetLength) ==
  IF Len(text) >= targetLength THEN text
  ELSE [i \in 1..(targetLength - Len(text)) |-> " "] \o text

toLowerCase(value) ==
  [i \in 1..Len(value) |->
     IF \E k \in 1..26 : value[i] = UpperCase[k]
       THEN LowerCase[CHOOSE k \in 1..26 : value[i] = UpperCase[k]]
       ELSE value[i]]

isLetter(value) == value \in Letters
isDigit(value) == value \in Digits

\* getKeywordType without toLowerCase
getKeywordType_caseSensitive(value) ==
  CASE value = Spelling["begin"] -> "BEGIN"
    [] value = Spelling["end"] -> "END"
    [] value = Spelling["integer"] -> "INTEGER"
    [] value = Spelling["if"] -> "IF"
    [] value = Spelling["then"] -> "THEN"
    [] value = Spelling["else"] -> "ELSE"
    [] value = Spelling["function"] -> "FUNCTION"
    [] value = Spelling["read"] -> "READ"
    [] value = Spelling["write"] -> "WRITE"
    [] OTHER -> None

getKeywordType(value) ==
  LET lower == toLowerCase(value)
  IN  CASE lower = Spelling["begin"] -> "BEGIN"
        [] lower = Spelling["end"] -> "END"
        [] lower = Spelling["integer"] -> "INTEGER"
        [] lower = Spelling["if"] -> "IF"
        [] lower = Spelling["then"] -> "THEN"
        [] lower = Spelling["else"] -> "ELSE"
        [] lower = Spelling["function"] -> "FUNCTION"
        [] lower = Spelling["read"] -> "READ"
        [] lower = Spelling["write"] -> "WRITE"
        [] OTHER -> None

\* Lexer.readSource().split(""): the collection of the lexer's cursor
readSource == trim(source)

\* cursor.current when p characters have been consumed: undefined once the
\* cursor is exhausted (no character equals it, no test accepts it)
currentCharacter(p) ==
  IF p < Len(readSource) THEN readSource[p + 1] ELSE "undefined"

\* while (test(this.cursor.current)) this.cursor.consume(), from p consumed
\* characters on: the number of characters consumed when the loop ends
consumeWhile(p, accepted) ==
  CHOOSE q \in p..Len(readSource) :
    /\ currentCharacter(q) \notin accepted
    /\ \A r \in p..(q - 1) : currentCharacter(r) \in accepted

\* what a call of getNextToken leaves: the cursor's position, the line and
\* the token returned, or the message of the Error thrown
Returned(p, n, type, value) ==
  [position |-> p, line |-> n, threw |-> FALSE, token |-> Tok(type, value),
   message |-> <<>>]
Threw(p, n, message) ==
  [position |-> p, line |-> n, threw |-> TRUE, token |-> Undefined,
   message |-> <<"Line ", ToString(n), ": ">> \o message]

getNextToken(l) ==
  LET p0 == consumeWhile(l.position, {" "})
      initial == currentCharacter(p0)
      p == p0 + 1
      next == currentCharacter(p)
  IN  IF isLetter(initial) THEN
        LET q == consumeWhile(p, Letters \cup Digits)
            value == SubSeq(readSource, p, q)
        IN  IF getKeywordType(value) # None
              THEN Returned(q, l.line, getKeywordType(value), value)
            ELSE IF Len(value) <= MAX_IDENTIFIER_LENGTH
              THEN Returned(q, l.line, "IDENTIFIER", value)
            ELSE Threw(q, l.line,
                       <<"Identifier name '">> \o value
                         \o <<"' exceeds ", ToString(MAX_IDENTIFIER_LENGTH),
                              " characters">>)
      ELSE IF isDigit(initial) THEN
        LET q == consumeWhile(p, Digits)
        IN  Returned(q, l.line, "CONSTANT", SubSeq(readSource, p, q))
      ELSE IF initial = "=" THEN Returned(p, l.line, "EQUAL", <<"=">>)
      ELSE IF initial = "-" THEN Returned(p, l.line, "SUBTRACT", <<"-">>)
      ELSE IF initial = "*" THEN Returned(p, l.line, "MULTIPLY", <<"*">>)
      ELSE IF initial = "(" THEN Returned(p, l.line, "LEFT_PARENTHESES", <<"(">>)
      ELSE IF initial = ")" THEN Returned(p, l.line, "RIGHT_PARENTHESES", <<")">>)
      ELSE IF initial = "<" THEN
        IF next = "=" THEN Returned(p + 1, l.line, "LESS_THAN_OR_EQUAL", <<"<", "=">>)
        ELSE IF next = ">" THEN Returned(p + 1, l.line, "NOT_EQUAL", <<"<", ">">>)
        ELSE Returned(p, l.line, "LESS_THAN", <<"<">>)
      ELSE IF initial = ">" THEN
        IF next = "=" THEN Returned(p + 1, l.line, "GREATER_THAN_OR_EQUAL", <<">", "=">>)
        ELSE Returned(p, l.line, "GREATER_THAN", <<">">>)
      ELSE IF initial = ":" THEN
        IF next = "=" THEN Returned(p + 1, l.line, "ASSIGN", <<":", "=">>)
        ELSE Threw(p, l.line, <<"Misused colon">>)
      ELSE IF initial = ";" THEN Returned(p, l.line, "SEMICOLON", <<";">>)
      ELSE IF initial = "\n" THEN
        Returned(p, l.line + 1, "END_OF_LINE", <<"E", "O", "L", "N">>)
      ELSE Threw(p, l.line, <<"Invalid character '", initial, "'">>)

\* Lexer.writeTokens: one line per token, the value right-justified in 16
\* characters, a space, and the two digits of the type.  The digits of a
\* type stand in the line as one element, the type itself: toString,
\* padStart(2, "0") and the unary plus of readTokens map the members of
\* TokenType one to one.
writeTokens(toks) ==
  [i \in 1..Len(toks) |->
     padStart(toks[i].value, 16) \o <<" ">> \o <<toks[i].type>>]

\* line.trim().split(" "): the first two parts, empty when there is none
partsOfLine(text) ==
  LET t == trim(text)
      spaces == {i \in 1..Len(t) : t[i] = " "}
      first == Least(spaces \cup {Len(t) + 1})
      second == Least({i \in spaces : i > first} \cup {Len(t) + 1})
  IN  [value |-> SubSeq(t, 1, first - 1), type |-> SubSeq(t, first + 1, second - 1)]

\* Parser.readTokens: the lines without a value or a type are skipped
readTokens(lines) ==
  LET parts == [i \in 1..Len(lines) |-> partsOfLine(lines[i])]
      kept == SelectSeq(parts, LAMBDA x : x.value # <<>> /\ x.type # <<>>)
  IN  [i \in 1..Len(kept) |-> Tok(kept[i].type[1], Text(kept[i].value))]

\* One turn of the loop of tokenize that stops at the first error
tokenize_loop_stopsAtError ==
  /\ pc = "tokenize"
  /\ lexer.position < Len(readSource)
  /\ LET r == getNextToken(lexer)
     IN  lexer' = [position |-> IF r.threw THEN Len(readSource) ELSE r.position,
                   line |-> r.line,
                   tokens |-> IF r.threw THEN lexer.tokens
                              ELSE Append(lexer.tokens, r.token),
                   errors |-> IF r.threw THEN Append(lexer.errors, r.message)
                              ELSE lexer.errors]
  /\ UNCHANGED <<tokens, position, line, procedureStack, currentLevel,
                 currentVariableAddress, shouldAddError, correctTokens,
                 variables, procedures, errors, stack, thrown, pc, result,
                 source, success, DYD, ERR>>

\* One turn of the loop of tokenize: try { tokens.push(this.getNextToken()) }
\* catch (error) { errors.push(error.message); continue }
tokenize_loop ==
  /\ pc = "tokenize"
  /\ lexer.position < Len(readSource)
  /\ LET r == getNextToken(lexer)
     IN  lexer' = [position |-> r.position,
                   line |-> r.line,
                   tokens |-> IF r.threw THEN lexer.tokens
                              ELSE Append(lexer.tokens, r.token),
                   errors |-> IF r.threw THEN Append(lexer.errors, r.message)
                              ELSE lexer.errors]
  /\ UNCHANGED <<tokens, position, line, procedureStack, currentLevel,
                 currentVariableAddress, shouldAddError, correctTokens,
                 variables, procedures, errors, stack, thrown, pc, result,
                 source, success, DYD, ERR>>

\* The end of tokenize: the END_OF_FILE token, the two files, the result
tokenize_return ==
  /\ pc = "tokenize"
  /\ ~(lexer.position < Len(readSource))
  /\ lexer' = [lexer EXCEPT
                 !.tokens = Append(@, Tok("END_OF_FILE", <<"E", "O", "F">>))]
  /\ DYD' = writeTokens(lexer'.tokens)
  /\ ERR' = lexer.errors
  /\ success' = (lexer.errors = <<>>)
  /\ pc' = "lexed"
  /\ UNCHANGED <<tokens, position, line, procedureStack, currentLevel,
                 currentVariableAddress, shouldAddError, correctTokens,
                 variables, procedures, errors, stack, thrown, result, source>>

\* main, after tokenize: const parser = new Parser(), whatever tokenize
\* returned; the constructor reads the token file
newParser ==
  /\ pc = "lexed"
  /\ tokens' = readTokens(DYD)
  /\ pc' = "start"
  /\ UNCHANGED <<position, line, procedureStack, currentLevel,
                 currentVariableAddress, shouldAddError, correctTokens,
                 variables, procedures, errors, stack, thrown, result,
                 source, lexer, success, DYD, ERR>>

(***************************************************************************)
(* Inputs.  A token file is the rendering of a program built from the      *)
(* grammar of the parse functions (with names that may or may not be       *)
(* declared), or such a rendering with one token removed or replaced.      *)
(* Each program fragment carries the names it references.                  *)
(***************************************************************************)
MaxDeclarations == 2   \* declarations in the top-level body

Frag(toks, vs, ps) == [toks |-> toks, vars |-> vs, procs |-> ps]

NumE(c) == Frag(<<Num(c)>>, {}, {})
VarE(x) == Frag(<<Id(x)>>, {x}, {})
CallE(p, e) ==
  Frag(<<Id(p), tLEFT_PARENTHESES>> \o e.toks \o <<tRIGHT_PARENTHESES>>,
       e.vars, {p} \cup e.procs)
SubE(e1, e2) == Frag(e1.toks \o <<tSUBTRACT>> \o e2.toks,
                     e1.vars \cup e2.vars, e1.procs \cup e2.procs)
MulE(e1, e2) == Frag(e1.toks \o <<tMULTIPLY>> \o e2.toks,
                     e1.vars \cup e2.vars, e1.procs \cup e2.procs)

ReadX(x) == Frag(<<tREAD, tLEFT_PARENTHESES, Id(x), tRIGHT_PARENTHESES>>, {x}, {})
WriteX(x) == Frag(<<tWRITE, tLEFT_PARENTHESES, Id(x), tRIGHT_PARENTHESES>>, {x}, {})
AssignX(x, e) == Frag(<<Id(x), tASSIGN>> \o e.toks, {x} \cup e.vars, e.procs)
AssignP(p, e) == Frag(<<Id(p), tASSIGN>> \o e.toks, e.vars, {p} \cup e.procs)
IfX(e1, op, e2, x1, x2) ==
  Frag(<<tIF>> \o e1.toks \o <<op>> \o e2.toks \o <<tTHEN>> \o x1.toks
         \o <<tELSE>> \o x2.toks,
       e1.vars \cup e2.vars \cup x1.vars \cup x2.vars,
       e1.procs \cup e2.procs \cup x1.procs \cup x2.procs)

\* executions of the top-level body
MainExecutions ==
  { WriteX("a"),
    WriteX("x"),
    ReadX("b"),
    AssignX("a", SubE(NumE("1"), NumE("2"))),
    AssignX("b", CallE("f", VarE("a"))),
    IfX(VarE("a"), tLESS_THAN, NumE("1"), AssignX("a", NumE("1")), WriteX("a")) }

\* executions of the body of procedure p with parameter n
BodyExecutions(p, n) ==
  { AssignP(p, VarE(n)),
    AssignX("k", VarE("a")),
    IfX(VarE(n), tLESS_THAN_OR_EQUAL, NumE("0"), AssignP(p, NumE("1")),
        AssignP(p, MulE(VarE(n), CallE(p, SubE(VarE(n), NumE("1")))))) }

VarDecl(x) ==
  [kind |-> "var", name |-> x, param |-> "", locals |-> <<>>, body |-> NumE("0")]
ProcDecl(p, n, locals, body) ==
  [kind |-> "proc", name |-> p, param |-> n, locals |-> locals, body |-> body]

Declarations ==
  {VarDecl(x) : x \in {"a", "b"}}
    \cup {ProcDecl("f", "n", <<"k">>, body) : body \in BodyExecutions("f", "n")}
    \cup {ProcDecl("f", "n", <<"n">>, AssignP("f", VarE("n"))),
          ProcDecl("g", "n", <<"k">>, AssignP("g", VarE("n")))}

SeqsUpTo(S, n) == UNION {[1..m -> S] : m \in 1..n}

Programs ==
  [decls : SeqsUpTo(Declarations, MaxDeclarations),
   execs : {<<x>> : x \in MainExecutions}]

RECURSIVE Concat(_)
Concat(ss) == IF ss = <<>> THEN <<>> ELSE Head(ss) \o Concat(Tail(ss))

\* x1 ; x2 ; ... ; xn
RECURSIVE Separated(_)
Separated(xs) ==
  IF Len(xs) = 1 THEN xs[1].toks
  ELSE xs[1].toks \o <<tSEMICOLON>> \o Separated(Tail(xs))

DeclTokens(d) ==
  IF d.kind = "var" THEN <<tINTEGER, Id(d.name), tSEMICOLON>>
  ELSE <<tINTEGER, tFUNCTION, Id(d.name), tLEFT_PARENTHESES, Id(d.param),
         tRIGHT_PARENTHESES, tSEMICOLON, tBEGIN>>
       \o Concat([i \in 1..Len(d.locals) |-> <<tINTEGER, Id(d.locals[i]), tSEMICOLON>>])
       \o d.body.toks \o <<tEND, tSEMICOLON>>

ProgramTokens(p) ==
  <<tBEGIN>> \o Concat([i \in 1..Len(p.decls) |-> DeclTokens(p.decls[i])])
    \o Separated(p.execs) \o <<tEND, tEOF>>

\* The names of the declarations of kind k among the first n declarations
DeclaredBefore(p, n, k) ==
  {p.decls[j].name : j \in {i \in 1..n : p.decls[i].kind = k}}

NoDuplicates(xs) == \A i, j \in 1..Len(xs) : i # j => xs[i] # xs[j]

\* Every referenced variable, parameter or procedure is declared in the
\* current or an enclosing scope (before its use), and no name is declared
\* twice within the same owning procedure, kind and level.
SemanticallyValid(p) ==
  /\ \A i, j \in 1..Len(p.decls) :
       (i # j /\ p.decls[i].kind = p.decls[j].kind) => p.decls[i].name # p.decls[j].name
  /\ \A i \in 1..Len(p.decls) :
       LET d == p.decls[i]
       IN  d.kind = "proc" =>
             /\ NoDuplicates(d.locals)
             /\ d.body.vars \subseteq
                  {d.locals[j] : j \in 1..Len(d.locals)} \cup {d.param}
                    \cup DeclaredBefore(p, i - 1, "var")
             /\ d.body.procs \subseteq {d.name} \cup DeclaredBefore(p, i - 1, "proc")
  /\ \A i \in 1..Len(p.execs) :
       /\ p.execs[i].vars \subseteq DeclaredBefore(p, Len(p.decls), "var")
       /\ p.execs[i].procs \subseteq DeclaredBefore(p, Len(p.decls), "proc")

\* The lexer emits END_OF_LINE for each newline of the source: a program on
\* one line has none, a program with a line break after every 'begin' and
\* every ';' has one after each of these tokens.
\* (the tokens i..j of toks with their line breaks, computed by halves)
RECURSIVE BreakBetween(_, _, _)
BreakBetween(toks, i, j) ==
  IF i > j THEN <<>>
  ELSE IF i = j
    THEN IF toks[i].type \in {"BEGIN", "SEMICOLON"} /\ i < Len(toks)
           THEN <<toks[i], tEOLN>>
           ELSE <<toks[i]>>
    ELSE LET m == (i + j) \div 2
         IN  BreakBetween(toks, i, m) \o BreakBetween(toks, m + 1, j)

BreakLines(toks) == BreakBetween(toks, 1, Len(toks))

Layouts(toks) == {toks, BreakLines(toks)}

ValidPrograms ==
  LET valid == {q \in Programs : SemanticallyValid(q)}
  IN  {ProgramTokens(p) : p \in valid} \cup {BreakLines(ProgramTokens(p)) : p \in valid}

\* the examples of the specification
Example_assign ==
  <<tBEGIN, tINTEGER, Id("a"), tSEMICOLON, Id("a"), tASSIGN, Num("1"), tSUBTRACT,
    Num("2"), tSEMICOLON, tEND, tEOF>>
Example_duplicate ==
  <<tBEGIN, tINTEGER, Id("a"), tSEMICOLON, tINTEGER, Id("a"), tSEMICOLON, tEND, tEOF>>
Example_write ==
  <<tBEGIN, tWRITE, tLEFT_PARENTHESES, Id("x"), tRIGHT_PARENTHESES, tSEMICOLON,
    tEND, tEOF>>

\* begin integer a; write(x); a := a; read(y) end
TwoUndefined ==
  ProgramTokens([decls |-> <<VarDecl("a")>>,
                 execs |-> <<WriteX("x"), AssignX("a", VarE("a")), ReadX("y")>>])

\* begin integer a;
\*   integer function f(n);
\*   begin integer n;
\*     integer function g(m); begin integer m; g := m end;
\*     integer n;
\*     f := g(n) end;
\*   integer b; a := f(b) end
Nested ==
  <<tBEGIN, tINTEGER, Id("a"), tSEMICOLON,
    tINTEGER, tFUNCTION, Id("f"), tLEFT_PARENTHESES, Id("n"), tRIGHT_PARENTHESES,
    tSEMICOLON, tBEGIN, tINTEGER, Id("n"), tSEMICOLON,
    tINTEGER, tFUNCTION, Id("g"), tLEFT_PARENTHESES, Id("m"), tRIGHT_PARENTHESES,
    tSEMICOLON, tBEGIN, tINTEGER, Id("m"), tSEMICOLON,
    Id("g"), tASSIGN, Id("m"), tEND, tSEMICOLON,
    tINTEGER, Id("n"), tSEMICOLON,
    Id("f"), tASSIGN, Id("g"), tLEFT_PARENTHESES, Id("n"), tRIGHT_PARENTHESES,
    tEND, tSEMICOLON,
    tINTEGER, Id("b"), tSEMICOLON,
    Id("a"), tASSIGN, Id("f"), tLEFT_PARENTHESES, Id("b"), tRIGHT_PARENTHESES,
    tEND, tEOF>>

\* programs that the malformed inputs are made from
BasePrograms ==
  { TwoUndefined, Nested,
    ProgramTokens([decls |-> <<VarDecl("a"),
                               ProcDecl("f", "n", <<"n">>, AssignP("f", VarE("n")))>>,
                   execs |-> <<IfX(VarE("a"), tEQUAL, NumE("1"),
                                   AssignX("a", CallE("f", NumE("1"))),
                                   WriteX("a"))>>]),
    Example_assign, Example_duplicate, Example_write }

\* begin integer function f(n); begin integer k; f := 1 end;
\*       integer function g(m); begin integer j; read(k) end;
\*       integer a; a := 1 end
Siblings ==
  ProgramTokens([decls |-> <<ProcDecl("f", "n", <<"k">>, AssignP("f", NumE("1"))),
                             ProcDecl("g", "m", <<"j">>, ReadX("k")),
                             VarDecl("a")>>,
                 execs |-> <<AssignX("a", NumE("1"))>>])

\* begin integer function f(n); begin integer k; f := 1 end;
\*       integer function g(m); begin integer k; g := 1 end;
\*       integer a; a := 1 end
SiblingLocals ==
  ProgramTokens([decls |-> <<ProcDecl("f", "n", <<"k">>, AssignP("f", NumE("1"))),
                             ProcDecl("g", "m", <<"k">>, AssignP("g", NumE("1"))),
                             VarDecl("a")>>,
                 execs |-> <<AssignX("a", NumE("1"))>>])

\* begin integer function f(n); begin integer k; f := 1 end;
\*       integer function f(m); begin integer j; f := 1 end;
\*       integer a; a := 1 end
DuplicateProcedure ==
  ProgramTokens([decls |-> <<ProcDecl("f", "n", <<"k">>, AssignP("f", NumE("1"))),
                             ProcDecl("f", "m", <<"j">>, AssignP("f", NumE("1"))),
                             VarDecl("a")>>,
                 execs |-> <<AssignX("a", NumE("1"))>>])

\* begin integer function f(n); begin integer k; f := 1 end;
\*       integer function g(m);
\*       begin integer function f(p); begin integer j; f := 1 end;
\*         integer i; g := 1 end;
\*       integer a; a := 1 end
SameName ==
  <<tBEGIN>>
    \o DeclTokens(ProcDecl("f", "n", <<"k">>, AssignP("f", NumE("1"))))
    \o <<tINTEGER, tFUNCTION, Id("g"), tLEFT_PARENTHESES, Id("m"),
          tRIGHT_PARENTHESES, tSEMICOLON, tBEGIN>>
    \o DeclTokens(ProcDecl("f", "p", <<"j">>, AssignP("f", NumE("1"))))
    \o <<tINTEGER, Id("i"), tSEMICOLON, Id("g"), tASSIGN, Num("1"), tEND, tSEMICOLON,
          tINTEGER, Id("a"), tSEMICOLON, Id("a"), tASSIGN, Num("1"), tEND, tEOF>>

\* begin integer function main(n); begin integer k; main := 1 end;
\*       integer a; a := main(a) end
ProcedureMain ==
  ProgramTokens([decls |-> <<ProcDecl("main", "n", <<"k">>, AssignP("main", NumE("1"))),
                             VarDecl("a")>>,
                 execs |-> <<AssignX("a", CallE("main", VarE("a")))>>])

\* begin integer function g(m);
\*       begin integer function h(p); begin integer j; h := 1 end;
\*         integer i; g := h(i) end;
\*       integer a; a := h(a) end
NestedCall ==
  <<tBEGIN, tINTEGER, tFUNCTION, Id("g"), tLEFT_PARENTHESES, Id("m"),
    tRIGHT_PARENTHESES, tSEMICOLON, tBEGIN>>
    \o DeclTokens(ProcDecl("h", "p", <<"j">>, AssignP("h", NumE("1"))))
    \o <<tINTEGER, Id("i"), tSEMICOLON, Id("g"), tASSIGN, Id("h"),
          tLEFT_PARENTHESES, Id("i"), tRIGHT_PARENTHESES, tEND, tSEMICOLON,
          tINTEGER, Id("a"), tSEMICOLON, Id("a"), tASSIGN, Id("h"),
          tLEFT_PARENTHESES, Id("a"), tRIGHT_PARENTHESES, tEND, tEOF>>

\* begin
\*   integer a;
\*   read(x
\*   ); write(y)
\* end
LineEnd ==
  <<tBEGIN, tEOLN, tINTEGER, Id("a"), tSEMICOLON, tEOLN,
    tREAD, tLEFT_PARENTHESES, Id("x"), tEOLN,
    tRIGHT_PARENTHESES, tSEMICOLON, tWRITE, tLEFT_PARENTHESES, Id("y"),
    tRIGHT_PARENTHESES, tEOLN, tEND, tEOF>>

\* begin integer a; a := 1    (the closing 'end' is missing)
MissingEnd ==
  <<tBEGIN, tINTEGER, Id("a"), tSEMICOLON, Id("a"), tASSIGN, Num("1"), tEOF>>

\* programs about the scopes of procedures
ScopePrograms ==
  {Siblings, SiblingLocals, DuplicateProcedure, SameName, ProcedureMain, NestedCall}

RemoveAt(toks, i) == SubSeq(toks, 1, i - 1) \o SubSeq(toks, i + 1, Len(toks))
ReplaceAt(toks, i, t) == [toks EXCEPT ![i] = t]

Replacements ==
  {tRIGHT_PARENTHESES, tINTEGER, tEND, tSEMICOLON, Id("x"), Id("a"), tELSE}

\* one token of a base program removed or replaced (never the final EOF)
Malformed ==
  UNION { {RemoveAt(toks, i) : i \in 1..(Len(toks) - 1)}
            \cup {ReplaceAt(toks, i, t) : i \in 1..(Len(toks) - 1), t \in Replacements} :
          toks \in BasePrograms }

Inputs ==
  {ProgramTokens(p) : p \in Programs}
    \cup {BreakLines(ProgramTokens(p)) : p \in Programs}
    \cup UNION {Layouts(toks) : toks \in BasePrograms \cup Malformed \cup ScopePrograms}
    \cup {LineEnd, MissingEnd}

(***************************************************************************)
(* Source files.  A source is written as its pieces, words of Spelling or  *)
(* single characters.                                                      *)
(***************************************************************************)
RECURSIVE Flatten(_, _, _)
Flatten(ss, i, j) ==
  IF i > j THEN <<>>
  ELSE IF i = j THEN ss[i]
  ELSE LET m == (i + j) \div 2 IN Flatten(ss, i, m) \o Flatten(ss, m + 1, j)

Render(pieces) ==
  Flatten([i \in 1..Len(pieces) |->
             IF pieces[i] \in DOMAIN Spelling THEN Spelling[pieces[i]]
             ELSE <<pieces[i]>>],
          1, Len(pieces))

\* a program with a recursive function, one statement per line, and a final newline
Source_factorial ==
  Render(<<"begin", "\n",
           " ", " ", "integer", " ", "a", ";", "\n",
           " ", " ", "integer", " ", "function", " ", "f", "(", "n", ")",
           ";", "\n",
           " ", " ", "begin", "\n",
           " ", " ", " ", " ", "integer", " ", "n", ";", "\n",
           " ", " ", " ", " ", "if", " ", "n", " ", "<=", " ", "0", " ",
           "then", " ", "f", " ", ":=", " ", "1", " ", "else", " ", "f",
           " ", ":=", " ", "n", " ", "*", " ", "f", "(", "n", " ", "-",
           " ", "1", ")", "\n",
           " ", " ", "end", ";", "\n",
           " ", " ", "read", "(", "a", ")", ";", "\n",
           " ", " ", "write", "(", "a", ")", ";", "\n",
           " ", " ", "a", " ", ":=", " ", "f", "(", "a", ")", "\n",
           "end", "\n">>)

\* two lexical errors and, for the parser, a stray constant; one blank line
Source_errors ==
  Render(<<"begin", "\n",
           " ", " ", "integer", " ", "a", ";", "\n",
           " ", " ", "a", " ", ":=", " ", "1", " ", "$", " ", "2", ";",
           "\n",
           "\n",
           " ", " ", "a", " ", ":", " ", "2", "\n",
           "end">>)

\* an invalid character that leaves a correct token sequence
Source_lexicalOnly ==
  Render(<<"begin", " ", "integer", " ", "a", ";", " ", "a", " ", ":=",
           " ", "1", " ", "$", " ", "end">>)

\* no declaration: the parser aborts
Source_fatal ==
  Render(<<"begin", "\n",
           " ", " ", "write", "(", "x", ")", ";", "\n",
           "end">>)

\* an identifier of 17 characters
Source_longIdentifier ==
  Render(<<"begin", "\n",
           " ", " ", "integer", " ", "a", "b", "c", "d", "e", "f", "g",
           "h", "i", "j", "k", "l", "m", "n", "o", "p", "q", ";", "\n",
           " ", " ", "a", " ", ":=", " ", "1", "\n",
           "end">>)

\* a program on one line, keywords in upper case
Source_oneLine ==
  Render(<<"BEGIN", " ", "integer", " ", "a", ";", " ", "a", " ", ":=",
           " ", "1", " ", "-", " ", "2", " ", "END">>)

\* blank lines between the lines of a program, and around it
Source_blankLines ==
  Render(<<"\n",
           "\n",
           "begin", "\n",
           "\n",
           " ", " ", "integer", " ", "b", ";", "\n",
           "\n",
           "\n",
           " ", " ", "b", " ", ":=", " ", "2", " ", "*", " ", "1", ";",
           "\n",
           " ", " ", "if", " ", "b", " ", ">=", " ", "1", " ", "then", " ",
           "write", "(", "b", ")", " ", "else", " ", "read", "(", "b", ")",
           "\n",
           "end", "\n",
           "\n">>)

\* every operator and a tab
Source_operators ==
  Render(<<"begin", " ", "integer", " ", "a", ";", "\n",
           "\t", "if", " ", "a", " ", "=", " ", "1", " ", "then", " ", "a",
           " ", ":=", " ", "0", " ", "else", " ", "a", " ", ":=", " ", "1",
           ";", "\n",
           " ", "if", " ", "a", " ", "<>", " ", "1", " ", "then", " ", "a",
           " ", ":=", " ", "0", " ", "else", " ", "a", " ", ":=", " ", "1",
           ";", "\n",
           " ", "if", " ", "a", " ", "<", " ", "1", " ", "then", " ", "a",
           " ", ":=", " ", "0", " ", "else", " ", "a", " ", ":=", " ", "1",
           ";", "\n",
           " ", "if", " ", "a", " ", ">", " ", "1", " ", "then", " ", "a",
           " ", ":=", " ", "0", " ", "else", " ", "a", " ", ":=", " ", "1",
           "\n",
           "end">>)

\* an empty file and a file of white space
\* a colon with a digit right after it
Source_misusedColon ==
  Render(<<"begin", " ", "integer", " ", "a", ";", " ", "a", " ", ":", "1",
           " ", "end">>)

\* identifiers of 16 and of 17 characters, and a keyword in upper case
Source_identifiers ==
  Render(<<"BEGIN", "\n",
           " ", " ", "integer", " ", "abcdefghijklmnop", ";", "\n",
           " ", " ", "integer", " ", "abcdefghijklmnop", "q", ";", "\n",
           " ", " ", "abcdefghijklmnop", " ", ":=", " ", "1", "\n",
           "end">>)

\* three lexical faults on one line
Source_faultyLine ==
  Render(<<"begin", "\n",
           " ", " ", "integer", " ", "a", ";", "\n",
           " ", " ", "a", " ", ":=", " ", "1", " ", "$", " ", ":", " ", "$",
           "\n",
           "end">>)

Sources ==
  { Source_factorial, Source_errors, Source_lexicalOnly, Source_fatal,
    Source_longIdentifier, Source_oneLine, Source_blankLines, Source_operators,
    Source_misusedColon, Source_identifiers, Source_faultyLine,
    <<>>, <<" ", "\n", " ">> }

(***************************************************************************)
(* The specification                                                       *)
(***************************************************************************)
\* the fields of a Parser after construction
ParserFields ==
  /\ position = 0
  /\ line = 1
  /\ procedureStack = <<"main">>
  /\ currentLevel = 1
  /\ currentVariableAddress = -1
  /\ shouldAddError = TRUE
  /\ correctTokens = <<>>
  /\ variables = <<>>
  /\ procedures = <<>>
  /\ errors = <<>>
  /\ stack = <<>>
  /\ thrown = None
  /\ result = None

\* The parser alone, constructed over a token file: no lexer has run.
Init ==
  /\ tokens \in Inputs
  /\ ParserFields
  /\ pc = "start"
  /\ source = <<>>
  /\ lexer = [position |-> 0, line |-> 1, tokens |-> <<>>, errors |-> <<>>]
  /\ success = None
  /\ DYD = <<>>
  /\ ERR = <<>>

Next ==
  \/ parse \/ parseReturn \/ parseCatch
  \/ parseProgram \/ parseProgram_eof
  \/ parseSubprogram \/ parseSubprogram_end
  \/ parseDeclarations \/ parseDeclarations_
  \/ parseDeclaration \/ parseDeclaration_semicolon \/ parseDeclaration_
  \/ parseVariableDeclaration \/ parseVariable
  \/ parseProcedureDeclaration \/ parseProcedureDeclaration_parameter
  \/ parseProcedureDeclaration_body
  \/ parseProcedureNameDeclaration \/ parseProcedureName
  \/ parseParameterDeclaration
  \/ parseProcedureBody \/ parseProcedureBody_end
  \/ parseExecutions \/ parseExecutions_ \/ parseExecution
  \/ parseRead \/ parseRead_close \/ parseWrite \/ parseWrite_close
  \/ parseAssignment \/ parseAssignment_assign
  \/ parseArithmeticExpression \/ parseArithmeticExpression_
  \/ parseTerm \/ parseTerm_ \/ parseFactor
  \/ parseProcedureCall \/ parseProcedureCall_argument \/ parseProcedureCall_close
  \/ parseCondition \/ parseCondition_then \/ parseCondition_else
  \/ parseConditionExpression \/ parseOperator

Spec == Init /\ [][Next]_vars

\* main of src/src/index.ts: the lexer over a source file, then the parser
\* over the token file that the lexer wrote
PipelineInit ==
  /\ source \in Sources
  /\ lexer = [position |-> 0, line |-> 1, tokens |-> <<>>, errors |-> <<>>]
  /\ pc = "tokenize"
  /\ success = None
  /\ DYD = <<>>
  /\ ERR = <<>>
  /\ tokens = <<>>
  /\ ParserFields

PipelineNext == tokenize_loop \/ tokenize_return \/ newParser \/ Next

Pipeline == PipelineInit /\ [][PipelineNext]_vars

(***************************************************************************)
(* Vocabulary of the properties                                            *)
(***************************************************************************)
Fatal(e) == e[Len(e)] = " [FATAL]"
HasLine(e) == e[1] = "Line "
LineOf(e) == e[2]
\* the message of an entry "Line <n>: <message>" starts at its fourth part
Says(e, text) == HasLine(e) /\ Len(e) >= 4 /\ e[4] = text

SoftErrors == SelectSeq(errors, LAMBDA e : ~Fatal(e))
Count(entries, text) == Cardinality({i \in 1..Len(entries) : Says(entries[i], text)})

Lookahead == tokens[position + 1]
Entering(f) == Top(f) /\ position < Len(tokens)
NeverDeclared(name) ==
  /\ \A i \in 1..Len(variables) : variables[i].name # name
  /\ \A i \in 1..Len(procedures) : procedures[i].name # name

(***************************************************************************)
(* C1.  Every token sequence derivable from the grammar and semantically   *)
(* valid parses with result true and an empty error list.                  *)
(***************************************************************************)
C1_ValidProgramParses ==
  (pc = "done" /\ tokens \in ValidPrograms) => (result = TRUE /\ errors = <<>>)

(***************************************************************************)
(* C2.  As claimed: a line contributes exactly one entry to the error      *)
(* list, whatever fails on it later: no two entries carry the same line.   *)
(***************************************************************************)
C2_OneEntryPerLine ==
  \A i, j \in 1..Len(errors) :
    (i # j /\ HasLine(errors[i]) /\ HasLine(errors[j]))
      => LineOf(errors[i]) # LineOf(errors[j])

(***************************************************************************)
(* C2, amended.  Soft errors coalesce per value of the line counter: no    *)
(* two non-fatal entries carry the same line; while the parse runs the     *)
(* suppression flag is off exactly when an entry for the current line has  *)
(* been recorded; and a step that starts with the flag off and stays on    *)
(* the line records no non-fatal entry.  The fatal entry is not coalesced. *)
(***************************************************************************)
C2_NoTwoSoftOnLine ==
  \A i, j \in 1..Len(SoftErrors) :
    i # j => LineOf(SoftErrors[i]) # LineOf(SoftErrors[j])

C2_FlagTracksLine ==
  pc = "try" =>
    (shouldAddError <=> \A i \in 1..Len(errors) : LineOf(errors[i]) # ToString(line))

C2_SoftErrorsCoalesce ==
  /\ [](C2_NoTwoSoftOnLine /\ C2_FlagTracksLine)
  /\ [][(~shouldAddError /\ line' = line) => SoftErrors' = SoftErrors]_vars

\* write(x) and read(y) both fail on line 1; only the first is recorded
C2_Witness ==
  /\ pc = "done" /\ tokens = TwoUndefined
  /\ errors = << <<"Line ", "1", ": ", "Undefined variable '", "x", "'">> >>

(***************************************************************************)
(* C3.  parseExecution entered on a token that is none of read, write,     *)
(* IDENTIFIER, if: the step consumes that token (and only line ends after  *)
(* it), records nothing and throws; the throw is caught by parse, which    *)
(* appends the one [FATAL] entry after the entries collected so far,       *)
(* returns false and leaves the tables as they were; nothing runs after.   *)
(***************************************************************************)
ExecutionStart == {"READ", "WRITE", "IDENTIFIER", "IF"}

C3_Abort ==
  (Entering("parseExecution") /\ Lookahead.type \notin ExecutionStart) =>
    /\ thrown' # None /\ stack' = <<>>
    /\ thrown'[4] = "Expect executions, but got '" /\ thrown'[5] = Lookahead.value
    /\ errors' = errors /\ variables' = variables /\ procedures' = procedures
    /\ Len(correctTokens') > Len(correctTokens)
    /\ SubSeq(correctTokens', 1, Len(correctTokens)) = correctTokens
    /\ correctTokens'[Len(correctTokens) + 1] = Lookahead
    /\ \A k \in (Len(correctTokens) + 2)..Len(correctTokens') :
         correctTokens'[k].type = "END_OF_LINE"

C3_Caught ==
  (pc = "try" /\ thrown # None) =>
    /\ pc' = "done" /\ result' = FALSE
    /\ \A i \in 1..Len(errors) : ~Fatal(errors[i])
    /\ errors' = Append(errors, thrown \o <<" [FATAL]">>)
    /\ UNCHANGED <<variables, procedures, correctTokens, position>>

C3_FatalExecutionAborts == [][C3_Abort /\ C3_Caught /\ pc # "done"]_vars

C3_Witness ==
  /\ pc = "done" /\ result = FALSE
  /\ Len(errors) >= 2 /\ variables # <<>>
  /\ Says(errors[Len(errors)], "Expect executions, but got '")
  /\ position < Len(tokens)

(***************************************************************************)
(* C4.  A reference to a name that was never declared is a soft error      *)
(* wherever it occurs: the step that meets it throws nothing and the parse *)
(* goes on.                                                                *)
(***************************************************************************)
C4_UndeclaredReferenceIsSoft ==
  [][ ( /\ \/ Entering("parseVariable")
           \/ Entering("parseAssignment")
           \/ Entering("parseFactor")
        /\ Lookahead.type = "IDENTIFIER"
        /\ NeverDeclared(Lookahead.value) )
      => (thrown' = None /\ stack' # <<>>) ]_vars

(***************************************************************************)
(* C5.  The only entry flagged [FATAL] is the one for a statement position *)
(* holding a token that cannot begin an execution.                         *)
(***************************************************************************)
C5_OnlyExecutionIsFatal ==
  \A i \in 1..Len(errors) :
    Fatal(errors[i]) => Says(errors[i], "Expect executions, but got '")

(***************************************************************************)
(* C6.  The addresses of the variable table are strictly increasing in     *)
(* declaration order (hence pairwise distinct) and start at 0, at any      *)
(* nesting and whatever was rejected as a duplicate; the address counter   *)
(* is the last address given out and never goes down.                      *)
(***************************************************************************)
C6_Addresses ==
  /\ variables # <<>> => variables[1].address = 0
  /\ \A i, j \in 1..Len(variables) :
       i < j => variables[i].address < variables[j].address
  /\ currentVariableAddress =
       IF variables = <<>> THEN -1 ELSE variables[Len(variables)].address

C6_AddressesIncrease ==
  /\ []C6_Addresses
  /\ [][currentVariableAddress' >= currentVariableAddress]_vars

\* a parameter and locals of procedures and a later top-level declaration,
\* with a rejected duplicate in between
C6_Witness ==
  /\ pc = "done"
  /\ Len(variables) >= 3
  /\ \E i \in 1..Len(variables) : variables[i].kind = 1
  /\ \E i, j \in 1..Len(variables) :
       i < j /\ variables[i].level = 2 /\ variables[j].level = 1
  /\ \E i \in 1..Len(errors) : errors[i][Len(errors[i])] = "' has already been declared"

(***************************************************************************)
(* C7.  As claimed: declaring a variable whose name already has a Local    *)
(* record at the same level in the same procedure appends one "already     *)
(* declared" entry and leaves the table as it was.                         *)
(***************************************************************************)
SameScopeDuplicate(name) ==
  \E i \in 1..Len(variables) :
    /\ variables[i].name = name
    /\ variables[i].kind = 0
    /\ variables[i].level = currentLevel
    /\ variables[i].procedure = procedureStackTop(St)

Redeclaring ==
  /\ Entering("parseVariableDeclaration")
  /\ Lookahead.type = "IDENTIFIER"
  /\ SameScopeDuplicate(Lookahead.value)

AlreadyDeclared(name, n) ==
  <<"Line ", ToString(n), ": ", "Variable '", name, "' has already been declared">>

C7_DuplicateYieldsOneError ==
  [][Redeclaring =>
       /\ variables' = variables
       /\ errors' = Append(errors, AlreadyDeclared(Lookahead.value, line'))]_vars

(***************************************************************************)
(* C7, amended.  The redeclaration leaves the table as it was and appends  *)
(* one "already declared" entry, unless an entry has already been recorded *)
(* for the line the parser is on: then the error is coalesced away.  For   *)
(* `begin integer a; integer a; end` the table has one entry for a and the *)
(* error list one "Variable 'a' has already been declared" entry.          *)
(***************************************************************************)
C7_Redeclaration ==
  Redeclaring =>
    /\ variables' = variables
    /\ errors' = IF \E i \in 1..Len(errors) : LineOf(errors[i]) = ToString(line')
                   THEN errors
                   ELSE Append(errors, AlreadyDeclared(Lookahead.value, line'))

C7_Example ==
  (pc = "done" /\ tokens = Example_duplicate) =>
    /\ Cardinality({i \in 1..Len(variables) : variables[i].name = "a"}) = 1
    /\ variables[1] = [name |-> "a", procedure |-> "main", kind |-> 0,
                       type |-> "integer", level |-> 1, address |-> 0]
    /\ Cardinality({i \in 1..Len(errors) :
                      errors[i] = AlreadyDeclared("a", 1)}) = 1

C7_DuplicateCoalesced == [][C7_Redeclaration]_vars /\ []C7_Example

C7_Witness ==
  /\ pc = "done" /\ tokens = Example_duplicate
  /\ errors[1] = AlreadyDeclared("a", 1)
  /\ Len(variables) = 1

(***************************************************************************)
(* C8.  As claimed: `begin integer a; a := 1 - 2; end` parses to the table *)
(* [a, Local, level 1, address 0] with no error and result true.           *)
(***************************************************************************)
TableIsA ==
  /\ Len(variables) = 1
  /\ variables[1].name = "a" /\ variables[1].kind = 0
  /\ variables[1].level = 1 /\ variables[1].address = 0

C8_ExampleSucceeds ==
  (pc = "done" /\ tokens = Example_assign) =>
    (TableIsA /\ errors = <<>> /\ result = TRUE)

(***************************************************************************)
(* C8, amended.  With the ';' directly before 'end' the table is as        *)
(* claimed, but the error list holds the one entry "Expect executions, but *)
(* got 'end'" [FATAL] and the result is false; without that ';' the error  *)
(* list is empty and the result is true.                                   *)
(***************************************************************************)
\* begin integer a; a := 1 - 2 end
Example_assign_separated == RemoveAt(Example_assign, 10)

C8_ExampleAborts ==
  /\ (pc = "done" /\ tokens = Example_assign) =>
       /\ TableIsA
       /\ Len(errors) = 1 /\ Fatal(errors[1])
       /\ Says(errors[1], "Expect executions, but got '") /\ errors[1][5] = "end"
       /\ result = FALSE
  /\ (pc = "done" /\ tokens = Example_assign_separated) =>
       (TableIsA /\ errors = <<>> /\ result = TRUE)

C8_Witness ==
  /\ pc = "done" /\ tokens = Example_assign
  /\ result = FALSE /\ Len(variables) = 1

(***************************************************************************)
(* C9.  As claimed: `begin write(x); end` yields exactly one "Undefined    *)
(* variable 'x'" entry and no fatal abort.                                 *)
(***************************************************************************)
UndefinedX(n) == <<"Line ", ToString(n), ": ", "Undefined variable '", "x", "'">>

C9_ExampleIsSoft ==
  (pc = "done" /\ tokens = Example_write) =>
    /\ Cardinality({i \in 1..Len(errors) : errors[i] = UndefinedX(1)}) = 1
    /\ \A i \in 1..Len(errors) : ~Fatal(errors[i])

(***************************************************************************)
(* C9, amended.  A body must start with a declaration: for                 *)
(* `begin write(x); end` the error list is "Expect 'integer', but got      *)
(* 'write'" followed by "'(' is not a valid variable name" [FATAL], with   *)
(* no "Undefined variable" entry, and the result is false.  With a         *)
(* declaration first and no ';' before 'end' (`begin integer a; write(x)   *)
(* end`) the error list is exactly the one "Undefined variable 'x'" entry  *)
(* and the parse completes without a fatal abort.                          *)
(***************************************************************************)
\* begin integer a; write(x) end
Example_write_declared ==
  ProgramTokens([decls |-> <<VarDecl("a")>>, execs |-> <<WriteX("x")>>])

C9_ExampleAborts ==
  /\ (pc = "done" /\ tokens = Example_write) =>
       /\ errors = << <<"Line ", "1", ": ", "Expect ", "'integer'", ", but got '",
                        "write", "'">>,
                      <<"Line ", "1", ": ", "'", "(", "' is not a valid variable name",
                        " [FATAL]">> >>
       /\ result = FALSE
  /\ (pc = "done" /\ tokens = Example_write_declared) =>
       /\ errors = <<UndefinedX(1)>>
       /\ result = FALSE
       /\ position = Len(tokens)

C9_Witness ==
  /\ pc = "done" /\ tokens = Example_write
  /\ Len(errors) = 2 /\ Fatal(errors[2])

(***************************************************************************)
(* C10.  parse returns true exactly when the final error list is empty; a  *)
(* [FATAL] entry exists only after parse has returned false, there is at   *)
(* most one, and it is the last entry of the list.                         *)
(***************************************************************************)
C10_Result ==
  /\ pc = "done" => (result \in BOOLEAN /\ (result = TRUE <=> errors = <<>>))
  /\ \A i \in 1..Len(errors) :
       Fatal(errors[i]) => (i = Len(errors) /\ pc = "done" /\ result = FALSE)
  /\ pc # "done" => result = None

\* a fatal abort after a recorded soft error
C10_Witness ==
  /\ pc = "done" /\ result = FALSE
  /\ Len(errors) >= 2
  /\ Fatal(errors[Len(errors)])
  /\ ~HasLine(errors[Len(errors)])
(***************************************************************************)
(* C14.  In every state the variable table has no two records with the     *)
(* same (name, owning procedure, kind, level) and the procedure table no   *)
(* two records with the same (name, level); a declaration whose name       *)
(* already has such a record leaves both tables exactly as they were.      *)
(***************************************************************************)
C14_Unique ==
  /\ \A i, j \in 1..Len(variables) :
       (/\ variables[i].name = variables[j].name
        /\ variables[i].procedure = variables[j].procedure
        /\ variables[i].kind = variables[j].kind
        /\ variables[i].level = variables[j].level) => i = j
  /\ \A i, j \in 1..Len(procedures) :
       (/\ procedures[i].name = procedures[j].name
        /\ procedures[i].level = procedures[j].level) => i = j

\* the name being declared by the step has a record of its kind in its scope
DuplicateDeclaration ==
  LET name == consumedValue(Popped)
  IN  \/ /\ Entering("parseVariableDeclaration")
         /\ SameScopeDuplicate(name)
      \/ /\ Entering("parseParameterDeclaration")
         /\ \E i \in 1..Len(variables) :
              /\ variables[i].name = name
              /\ variables[i].kind = 1
              /\ variables[i].level = currentLevel + 1
              /\ variables[i].procedure = procedureStackTop(St)
      \/ /\ Entering("parseProcedureNameDeclaration")
         /\ \E i \in 1..Len(procedures) :
              procedures[i].name = name /\ procedures[i].level = currentLevel + 1

C14_TablesUnique ==
  /\ []C14_Unique
  /\ [][DuplicateDeclaration =>
          (variables' = variables /\ procedures' = procedures)]_vars

\* a procedure and then a variable were rejected as duplicates, each beside
\* the one record of its name
C14_Witness ==
  /\ pc = "done"
  /\ \E i \in 1..Len(errors) : Says(errors[i], "Procedure '")
  /\ \E i \in 1..Len(errors) : Says(errors[i], "Variable '")
  /\ \E i \in 1..Len(procedures) :
       \A j \in 1..Len(procedures) : procedures[j].name = procedures[i].name => j = i

(***************************************************************************)
(* C15.  As claimed: the name stack is balanced.  While the parse runs the *)
(* stack holds "main" and, above it, one name for each procedure           *)
(* declaration being parsed (from the registration of its name to the end  *)
(* of its body), so every record is tagged with the innermost procedure    *)
(* being declared and the variables of level 1 are tagged "main".          *)
(***************************************************************************)
\* the procedure declarations being parsed whose name has been registered:
\* each has one continuation on the call stack
OpenDeclarations ==
  Cardinality({i \in 1..Len(stack) :
                 stack[i] \in {"parseProcedureDeclaration_parameter",
                               "parseProcedureDeclaration_body",
                               "parseProcedureBody", "parseProcedureBody_end"}})
    - Cardinality({i \in 1..Len(stack) : stack[i] = "parseProcedureNameDeclaration"})

C15_ScopeBalanced ==
  /\ (pc = "try" /\ thrown = None) =>
       /\ Len(procedureStack) = 1 + OpenDeclarations
       /\ procedureStack[Len(procedureStack)] = "main"
  /\ \A i \in 1..Len(variables) :
       variables[i].level = 1 => variables[i].procedure = "main"

(***************************************************************************)
(* C16.  As claimed: variable lookup is lexically scoped.  A reference to  *)
(* a name that has no record owned by the procedure being parsed or by an  *)
(* enclosing one (for instance a name declared only inside a sibling whose *)
(* body is closed) is reported as undefined: the step appends the          *)
(* "Undefined variable" entry, or an entry is already recorded for the     *)
(* line.                                                                   *)
(***************************************************************************)
\* the procedures being parsed, innermost first, and "main"
EnclosingProcedures == {procedureStack[i] : i \in 1..Len(procedureStack)}

VisibleVariable(name) ==
  \E i \in 1..Len(variables) :
    variables[i].name = name /\ variables[i].procedure \in EnclosingProcedures

UndefinedVariable(name, n) ==
  <<"Line ", ToString(n), ": ", "Undefined variable '", name, "'">>

C16_LexicalScoping ==
  [][(/\ Entering("parseVariable")
      /\ Lookahead.type = "IDENTIFIER"
      /\ ~VisibleVariable(Lookahead.value)) =>
        \/ errors' = Append(errors, UndefinedVariable(Lookahead.value, line'))
        \/ /\ errors' = errors
           /\ \E i \in 1..Len(errors) : LineOf(errors[i]) = ToString(line')]_vars

(***************************************************************************)
(* C17.  As claimed: declaring a variable whose name has no Local record   *)
(* at the same level in the same owning procedure adds the record and      *)
(* raises no error, so two procedures of the same level may each declare a *)
(* local of the same name.                                                 *)
(***************************************************************************)
C17_DuplicateOnlyInSameProcedure ==
  [][(/\ Entering("parseVariableDeclaration")
      /\ Lookahead.type = "IDENTIFIER"
      /\ ~SameScopeDuplicate(Lookahead.value)) =>
        /\ Len(variables') = Len(variables) + 1
        /\ variables'[Len(variables')].name = Lookahead.value
        /\ errors' = errors]_vars

(***************************************************************************)
(* C18.  As claimed: once the whole program has been parsed without error, *)
(* the interval [firstVariableAddress, lastVariableAddress] of every       *)
(* procedure record is exactly the set of the addresses of the variable    *)
(* records owned by that procedure, its parameter included.                *)
(***************************************************************************)
AddressRange(p) ==
  {a \in 0..currentVariableAddress :
     p.firstVariableAddress <= a /\ a <= p.lastVariableAddress}

OwnedAddresses(p) ==
  {variables[i].address : i \in {j \in 1..Len(variables) : variables[j].procedure = p.name}}

C18_RangeIsOwnAddresses ==
  (pc = "done" /\ result = TRUE) =>
    \A i \in 1..Len(procedures) :
      AddressRange(procedures[i]) = OwnedAddresses(procedures[i])

(***************************************************************************)
(* C19.  As claimed: once the body of a procedure has been parsed, no step *)
(* changes its record (in particular not its address range), and no step   *)
(* changes or deletes a variable record or any field of a procedure record *)
(* other than the address range.                                           *)
(***************************************************************************)
\* The name stack is balanced: one name above "main" for each procedure
\* declaration being parsed.
Balanced == Len(procedureStack) = 1 + OpenDeclarations

\* The record of the procedure declared at nesting depth d (the d-th name of
\* the name stack counted from "main") has level d + 1; a procedure record
\* that is not the record of a declaration being parsed is closed.
Closed(i) ==
  ~ \E d \in 1..(Len(procedureStack) - 1) :
      /\ procedures[i].name = procedureStack[Len(procedureStack) - d]
      /\ procedures[i].level = d + 1

C19_Step ==
  /\ Len(variables') >= Len(variables)
  /\ Len(procedures') >= Len(procedures)
  /\ \A i \in 1..Len(variables) : variables'[i] = variables[i]
  /\ \A i \in 1..Len(procedures) :
       /\ procedures'[i].name = procedures[i].name
       /\ procedures'[i].type = procedures[i].type
       /\ procedures'[i].level = procedures[i].level
       /\ (Balanced /\ Closed(i)) => procedures'[i] = procedures[i]

C19_ClosedRangeIsFixed == [][C19_Step]_vars

(***************************************************************************)
(* C20.  As claimed: a record added to the variable table, Local or        *)
(* Parameter, carries the value of currentLevel at the step that declares  *)
(* it, and a record added to the procedure table carries currentLevel + 1; *)
(* currentLevel is 1 in the top-level body and never below 1.              *)
(***************************************************************************)
\* the procedure bodies being parsed
OpenBodies ==
  Cardinality({i \in 1..Len(stack) : stack[i] = "parseProcedureBody_end"})

C20_Levels ==
  /\ currentLevel >= 1
  /\ (pc = "try" /\ thrown = None) => currentLevel = 1 + OpenBodies

C20_ProcedureTagged ==
  Len(procedures') > Len(procedures) =>
    procedures'[Len(procedures')].level = currentLevel + 1

C20_TaggedWithCurrentLevel ==
  /\ []C20_Levels
  /\ [][/\ Len(variables') > Len(variables) =>
             variables'[Len(variables')].level = currentLevel
        /\ C20_ProcedureTagged]_vars

(***************************************************************************)
(* C20, amended.  A Local record carries the value of currentLevel at the  *)
(* step that declares it; a Parameter record carries currentLevel + 1 (the *)
(* level of the body of its procedure, which has not been entered yet), as *)
(* does a procedure record; currentLevel is 1 plus the number of procedure *)
(* bodies being parsed, hence 1 in the top-level body and never below 1.   *)
(***************************************************************************)
C20_VariableTagged ==
  Len(variables') > Len(variables) =>
    LET v == variables'[Len(variables')]
    IN  v.level = IF v.kind = 1 THEN currentLevel + 1 ELSE currentLevel

C20_TaggedWithLevel ==
  /\ []C20_Levels
  /\ [][C20_VariableTagged /\ C20_ProcedureTagged /\ currentLevel' >= 1]_vars

\* a parameter and a local of a procedure nested in another one, and a
\* top-level variable declared after both bodies were left
C20_Witness ==
  /\ pc = "done"
  /\ currentLevel = 1
  /\ \E i \in 1..Len(procedures) : procedures[i].level = 3
  /\ \E i, j, k \in 1..Len(variables) :
       /\ variables[i].kind = 1 /\ variables[i].level = 3
       /\ variables[j].kind = 0 /\ variables[j].level = 3
       /\ i < k /\ j < k /\ variables[k].level = 1

(***************************************************************************)
(* C11.  As claimed: when the pipeline has run the lexer and then the      *)
(* parser, the error file holds every error that the lexer collected and   *)
(* every error of the parser.                                              *)
(***************************************************************************)
Holds(file, entries) ==
  \A i \in 1..Len(entries) : \E j \in 1..Len(file) : file[j] = entries[i]

C11_LedgerIsCumulative ==
  pc = "done" => (Holds(ERR, lexer.errors) /\ Holds(ERR, errors))

(***************************************************************************)
(* C12.  tokenize consumes the whole source and ends.  Every turn of its   *)
(* loop is one call of getNextToken, which consumes at least one character *)
(* and never goes past the end; the turn appends the token returned, or    *)
(* the message of the error thrown, and the loop goes on, so the number of *)
(* characters left falls with every turn.  When tokenize has returned,     *)
(* every character is consumed, the tokens end with the one                *)
(* END_OF_FILE token (value "EOF"), and the result is true exactly when no *)
(* error was collected.                                                    *)
(***************************************************************************)
EndOfFile(t) == t.type = "END_OF_FILE"

C12_Scanning ==
  pc = "tokenize" =>
    /\ lexer.position <= Len(readSource)
    /\ \A i \in 1..Len(lexer.tokens) : ~EndOfFile(lexer.tokens[i])
    /\ lexer.position < Len(readSource) =>
         /\ getNextToken(lexer).position > lexer.position
         /\ getNextToken(lexer).position <= Len(readSource)

C12_Turn ==
  (pc = "tokenize" /\ lexer.position < Len(readSource)) =>
    LET r == getNextToken(lexer)
    IN  /\ pc' = "tokenize"
        /\ lexer'.position = r.position
        /\ lexer'.position > lexer.position
        /\ IF r.threw
             THEN /\ lexer'.errors = Append(lexer.errors, r.message)
                  /\ lexer'.tokens = lexer.tokens
             ELSE /\ lexer'.errors = lexer.errors
                  /\ lexer'.tokens = Append(lexer.tokens, r.token)

C12_Returned ==
  pc \notin {"tokenize"} =>
    /\ lexer.position = Len(readSource)
    /\ lexer.tokens # <<>>
    /\ lexer.tokens[Len(lexer.tokens)] = Tok("END_OF_FILE", Spelling["EOF"])
    /\ \A i \in 1..(Len(lexer.tokens) - 1) : ~EndOfFile(lexer.tokens[i])
    /\ success = (lexer.errors = <<>>)

C12_TokenizeConsumesAll ==
  /\ [](C12_Scanning /\ C12_Returned)
  /\ [][C12_Turn]_vars

\* tokenize has returned false: two errors were collected and the tokens
\* after each of them were still read
C12_Witness ==
  /\ pc = "lexed"
  /\ source = Source_errors
  /\ success = FALSE
  /\ Len(lexer.errors) = 2
  /\ lexer.tokens[Len(lexer.tokens) - 1] = Tok("END", Spelling["end"])

(***************************************************************************)
(* C13.  As claimed: the number of END_OF_LINE tokens that the lexer       *)
(* produces equals the number of the lines of the source file that are not *)
(* empty.                                                                  *)
(***************************************************************************)
\* the lines of text that hold a character other than white space; a line
\* lies between two consecutive line ends (or an end of the text)
NonEmptyLines(text) ==
  LET ends == {0, Len(text) + 1} \cup {i \in 1..Len(text) : text[i] = "\n"}
  IN  Cardinality({a \in ends \ {Len(text) + 1} :
         \E i \in (a + 1)..(Least({b \in ends : b > a}) - 1) :
            text[i] \notin Whitespace})

EndOfLineTokens ==
  Cardinality({i \in 1..Len(lexer.tokens) : lexer.tokens[i].type = "END_OF_LINE"})

C13_OneEndOfLinePerLine ==
  pc \notin {"tokenize"} => EndOfLineTokens = NonEmptyLines(source)

(***************************************************************************)
(* C21.  A reference to a procedure named n made at level L resolves       *)
(* exactly when the procedure table holds a record named n whose level     *)
(* minus one is at most L.  The three places that look a procedure up      *)
(* agree with this: a factor and an assignment target that is no visible   *)
(* variable is taken for a procedure exactly then (and is undefined         *)
(* otherwise), and parseProcedureName reports "Undefined procedure"        *)
(* exactly otherwise.  So a procedure resolves in its own body and in the  *)
(* body that declares it, and not two levels or more above its body.       *)
(***************************************************************************)
Referenceable(name, L) ==
  \E i \in 1..Len(procedures) :
     procedures[i].name = name /\ procedures[i].level - 1 <= L

\* the parse function that runs next looks the current token up as a procedure
LooksUpProcedure(f) ==
  /\ Top(f)
  /\ isOpen(St)
  /\ current(St).type = "IDENTIFIER"
  /\ findVariable(St, current(St).value) = 0

C21_Factor ==
  LooksUpProcedure("parseFactor") =>
    IF Referenceable(current(St).value, currentLevel)
      THEN thrown' = None /\ stack' = <<"parseProcedureCall">> \o Tail(stack)
      ELSE thrown' # None

C21_Assignment ==
  LooksUpProcedure("parseAssignment") =>
    IF Referenceable(current(St).value, currentLevel)
      THEN /\ stack' = <<"parseProcedureName", "parseAssignment_assign">> \o Tail(stack)
           /\ errors' = errors
      ELSE /\ position' > position
           /\ shouldAddError => errors' # errors

C21_Name ==
  (Top("parseProcedureName") /\ isOpen(St) /\ current(St).type = "IDENTIFIER"
     /\ consumeToken(St).shouldAddError) =>
    (errors' = errors <=> Referenceable(current(St).value, currentLevel))

C21_ProcedureVisibility ==
  [][C21_Factor /\ C21_Assignment /\ C21_Name]_vars

\* h, declared inside g, has been called in the body of g and then refused
\* in the top-level body, two levels above its own
C21_Witness ==
  /\ tokens = NestedCall
  /\ pc = "done"
  /\ Len(procedures) = 2
  /\ procedures[2].name = "h" /\ procedures[2].level = 3
  /\ errors = <<<<"Line ", "1", ": ", "Undefined variable or procedure '", "h", "'",
                  " [FATAL]">>>>

(***************************************************************************)
(* C22.  The cleaned token stream is the consumed prefix of the input: in  *)
(* every reachable state of the parser, after a fatal abort too, the       *)
(* tokens recorded are the input tokens before the cursor position, and    *)
(* every step appends exactly the tokens it moves the cursor over, the     *)
(* END_OF_LINE and END_OF_FILE tokens and the mismatched ones included.    *)
(***************************************************************************)
C22_Prefix ==
  /\ position <= Len(tokens)
  /\ correctTokens = SubSeq(tokens, 1, position)

C22_Step ==
  /\ position' >= position
  /\ position' <= Len(tokens)
  /\ correctTokens' = correctTokens \o SubSeq(tokens, position + 1, position')

C22_CleanedStreamIsPrefix == []C22_Prefix /\ [][C22_Step]_vars

\* a fatal abort after a mismatched token and END_OF_LINE tokens were taken
C22_Witness ==
  /\ pc = "done"
  /\ result = FALSE
  /\ \E i \in 1..Len(errors) : Fatal(errors[i])
  /\ Len(errors) > 1
  /\ \E i \in 1..Len(correctTokens) : correctTokens[i].type = "END_OF_LINE"
  /\ correctTokens # <<>>
  /\ correctTokens # tokens

(***************************************************************************)
(* C23.  parse terminates on every token sequence, well formed or not, and *)
(* returns a boolean with no exception left in flight.  Until it returns a *)
(* step is always possible: the function on top of the call stack runs, or *)
(* parseProgram has returned, or parse catches the exception thrown.  And  *)
(* every step brings the return nearer: it raises, or it consumes a token, *)
(* or it leaves the tokens alone and replaces the function on top of the   *)
(* call stack by functions that come before it in the order of the         *)
(* grammar, so that the steps between two consumed tokens are bounded.     *)
(***************************************************************************)
\* the functions that may return without having consumed a token
Nullable ==
  {"parseDeclarations_", "parseExecutions_", "parseArithmeticExpression_", "parseTerm_"}

\* the functions that call another one before they consume a token, by the
\* longest chain of such calls
CallDepth(f) ==
  CASE f \in {"parseProcedureCall", "parseAssignment", "parseDeclaration_",
              "parseDeclarations", "parseDeclarations_", "parseProgram"} -> 2
    [] f \in {"parseFactor", "parseExecution"} -> 3
    [] f \in {"parseTerm", "parseExecutions"} -> 4
    [] f = "parseArithmeticExpression" -> 5
    [] f = "parseConditionExpression" -> 6
    [] OTHER -> 1

\* the calls that can still be made before the next token is consumed: those
\* of the functions on the call stack down to the first one that cannot
\* return without consuming
RECURSIVE Pending(_)
Pending(fs) ==
  IF fs = <<>> THEN 0
  ELSE IF Head(fs) \in Nullable THEN CallDepth(Head(fs)) + Pending(Tail(fs))
  ELSE CallDepth(Head(fs))

Phase ==
  CASE pc = "start" -> 3
    [] pc = "try" /\ thrown = None -> 2
    [] pc = "try" /\ thrown # None -> 1
    [] OTHER -> 0

C23_Nearer ==
  \/ Phase' < Phase
  \/ /\ Phase' = Phase
     /\ \/ position' > position
        \/ position' = position /\ Pending(stack') < Pending(stack)

ParseFunctions ==
  {"parseProgram", "parseProgram_eof", "parseSubprogram", "parseSubprogram_end",
   "parseDeclarations", "parseDeclarations_", "parseDeclaration",
   "parseDeclaration_semicolon", "parseDeclaration_", "parseVariableDeclaration",
   "parseVariable", "parseProcedureDeclaration",
   "parseProcedureDeclaration_parameter", "parseProcedureDeclaration_body",
   "parseProcedureNameDeclaration", "parseProcedureName",
   "parseParameterDeclaration", "parseProcedureBody", "parseProcedureBody_end",
   "parseExecutions", "parseExecutions_", "parseExecution", "parseRead",
   "parseRead_close", "parseWrite", "parseWrite_close", "parseAssignment",
   "parseAssignment_assign", "parseArithmeticExpression",
   "parseArithmeticExpression_", "parseTerm", "parseTerm_", "parseFactor",
   "parseProcedureCall", "parseProcedureCall_argument",
   "parseProcedureCall_close", "parseCondition", "parseCondition_then",
   "parseCondition_else", "parseConditionExpression", "parseOperator"}

C23_NeverStuck ==
  /\ pc \in {"start", "try", "done"}
  /\ position <= Len(tokens)
  /\ \A i \in 1..Len(stack) : stack[i] \in ParseFunctions

C23_Returned ==
  pc = "done" => (result \in BOOLEAN /\ thrown = None /\ stack = <<>>)

C23_ParseTerminates ==
  /\ [](C23_NeverStuck /\ C23_Returned)
  /\ [][C23_Nearer]_vars

\* parse has returned false after the cursor ran out: the TypeError of
\* reading the token after the last one was caught
C23_Witness ==
  /\ pc = "done"
  /\ result = FALSE
  /\ position = Len(tokens)
  /\ errors # <<>>
  /\ errors[Len(errors)] = TypeErrorMessage("type") \o <<" [FATAL]">>

(***************************************************************************)
(* C24.  As claimed: when the lexer reads ':' and the character after it   *)
(* is not '=', the call records one "Misused colon" error for the current  *)
(* line, adds no token, and leaves the cursor after the pair, so that the  *)
(* character after the colon yields no token either.                       *)
(***************************************************************************)
\* the characters consumed when the blanks before the next token are skipped
Skipped == consumeWhile(lexer.position, {" "})

\* the next call of getNextToken reads ':' and then a character that is
\* neither '=' nor a blank
MisusedColon ==
  /\ pc = "tokenize"
  /\ lexer.position < Len(readSource)
  /\ currentCharacter(Skipped) = ":"
  /\ Skipped + 1 < Len(readSource)
  /\ currentCharacter(Skipped + 1) \notin {"=", " "}

C24_MisusedColonSkipsPair ==
  [][MisusedColon =>
       /\ lexer'.errors =
            Append(lexer.errors, <<"Line ", ToString(lexer.line), ": ", "Misused colon">>)
       /\ lexer'.tokens = lexer.tokens
       /\ lexer'.position = Skipped + 2]_vars

(***************************************************************************)
(* C25.  A maximal run of letters and digits that starts with a letter is  *)
(* consumed whole by one call.  If the run is a keyword, whatever the case *)
(* of its letters, the call adds the keyword's token with the run as       *)
(* written for value; if not and the run has at most 16 characters it adds *)
(* an IDENTIFIER token; if it has 17 or more the call adds no token and    *)
(* one error, and scanning goes on behind the run.                         *)
(***************************************************************************)
\* the keywords, in lower case, and the types of their tokens
KeywordTypes ==
  ("begin" :> "BEGIN") @@ ("end" :> "END") @@ ("integer" :> "INTEGER")
    @@ ("if" :> "IF") @@ ("then" :> "THEN") @@ ("else" :> "ELSE")
    @@ ("function" :> "FUNCTION") @@ ("read" :> "READ") @@ ("write" :> "WRITE")

\* the index of the last character of the run that starts at index i
RunEnd(i) ==
  Least({j \in i..Len(readSource) :
           j = Len(readSource) \/ readSource[j + 1] \notin (Letters \cup Digits)})

WordAhead ==
  /\ pc = "tokenize"
  /\ lexer.position < Len(readSource)
  /\ currentCharacter(Skipped) \in Letters

C25_Word ==
  WordAhead =>
    LET run == SubSeq(readSource, Skipped + 1, RunEnd(Skipped + 1))
        keyword == {k \in DOMAIN KeywordTypes : Spelling[k] = toLowerCase(run)}
    IN  /\ pc' = "tokenize"
        /\ lexer'.position = RunEnd(Skipped + 1)
        /\ lexer'.line = lexer.line
        /\ IF keyword # {}
             THEN /\ lexer'.errors = lexer.errors
                  /\ \E k \in keyword :
                       lexer'.tokens = Append(lexer.tokens, Tok(KeywordTypes[k], run))
           ELSE IF Len(run) <= 16
             THEN /\ lexer'.errors = lexer.errors
                  /\ lexer'.tokens = Append(lexer.tokens, Tok("IDENTIFIER", run))
           ELSE   /\ lexer'.tokens = lexer.tokens
                  /\ Len(lexer'.errors) = Len(lexer.errors) + 1

C25_KeywordsAndIdentifiers == [][C25_Word]_vars

\* BEGIN was read as the keyword, the identifier of 16 characters was
\* accepted twice, the one of 17 refused once, and the ';' after it read
C25_Witness ==
  /\ pc = "lexed"
  /\ source = Source_identifiers
  /\ lexer.tokens[1] = Tok("BEGIN", Spelling["BEGIN"])
  /\ Cardinality({i \in 1..Len(lexer.tokens) :
        lexer.tokens[i] = Tok("IDENTIFIER", Spelling["abcdefghijklmnop"])}) = 2
  /\ Len(lexer.errors) = 1
  /\ Cardinality({i \in 1..Len(lexer.tokens) : lexer.tokens[i].type = "SEMICOLON"}) = 2

(***************************************************************************)
(* C26.  As claimed: the error list of the lexer holds at most one entry   *)
(* for a line of the source, however many lexical faults the line has.     *)
(***************************************************************************)
C26_OneLexicalErrorPerLine ==
  \A i, j \in 1..Len(lexer.errors) :
     i # j => LineOf(lexer.errors[i]) # LineOf(lexer.errors[j])

(***************************************************************************)
(* C27.  As claimed: inside the body of a procedure a reference to the     *)
(* procedure's parameter, in read or write, in an expression or as the     *)
(* target of an assignment, resolves as a reference to a local does: it    *)
(* adds no error and raises nothing.                                       *)
(***************************************************************************)
\* name is the parameter of the procedure whose body is being parsed
OwnParameter(name) ==
  /\ procedureStack # <<>>
  /\ \E i \in 1..Len(variables) :
       /\ variables[i].name = name
       /\ variables[i].kind = 1
       /\ variables[i].procedure = Head(procedureStack)
       /\ variables[i].level = currentLevel

\* the parse function that runs next resolves the current identifier
Resolving ==
  /\ \/ Top("parseVariable") \/ Top("parseFactor") \/ Top("parseAssignment")
  /\ isOpen(St)
  /\ current(St).type = "IDENTIFIER"

C27_ParameterResolves ==
  [][(Resolving /\ OwnParameter(current(St).value)) =>
       (errors' = errors /\ thrown' = None)]_vars

(***************************************************************************)
(* C28.  As claimed: an error entry carries the number of the line on      *)
(* which the offending token stands, one more than the number of           *)
(* END_OF_LINE tokens before it in the input, also when the token is the   *)
(* last one of its line.  Stated for the parse functions that check one    *)
(* token, the one under the cursor when they start: every entry they add,  *)
(* and the error they throw, carries that token's line.                    *)
(***************************************************************************)
\* the line of the i-th token of the input
LineOfToken(i) ==
  1 + Cardinality({j \in 1..(i - 1) : tokens[j].type = "END_OF_LINE"})

ChecksCurrentToken ==
  /\ \/ Top("parseVariable") \/ Top("parseVariableDeclaration")
     \/ Top("parseParameterDeclaration") \/ Top("parseProcedureNameDeclaration")
     \/ Top("parseProcedureName") \/ Top("parseFactor") \/ Top("parseExecution")
     \/ Top("parseDeclaration_") \/ Top("parseOperator")
  /\ isOpen(St)
  /\ current(St).type # "END_OF_LINE"

C28_Step ==
  ChecksCurrentToken =>
    /\ \A i \in (Len(errors) + 1)..Len(errors') :
         LineOf(errors'[i]) = ToString(LineOfToken(position + 1))
    /\ thrown' # None =>
         (HasLine(thrown') /\ LineOf(thrown') = ToString(LineOfToken(position + 1)))

C28_ErrorCarriesTokenLine == [][C28_Step]_vars

(***************************************************************************)
(* C29.  As claimed: on a token sequence that ends with END_OF_FILE the    *)
(* parser never reads the cursor once it is exhausted, whatever token is   *)
(* missing, and every entry of the error list has the form                 *)
(* "Line <n>: <message>", with " [FATAL]" after it or not.                 *)
(***************************************************************************)
EndsWithEndOfFile ==
  tokens # <<>> /\ tokens[Len(tokens)].type = "END_OF_FILE"

\* the TypeError of reading a property of the token after the last one
ReadPastEnd(message) ==
  message \in {TypeErrorMessage("type"), TypeErrorMessage("value")}

LineForm(e) ==
  /\ Len(e) >= 4
  /\ e[1] = "Line "
  /\ \E n \in 1..(Len(tokens) + 1) : e[2] = ToString(n)
  /\ e[3] = ": "

C29_NeverReadsPastEnd ==
  EndsWithEndOfFile =>
    /\ ~ReadPastEnd(thrown)
    /\ \A i \in 1..Len(errors) : LineForm(errors[i])

(***************************************************************************)
(* C30.  As claimed: every name in the variable table and in the procedure *)
(* table is the value of an IDENTIFIER token of the input; a token of      *)
(* another type where a name is declared gives no record.                  *)
(***************************************************************************)
IdentifierValues ==
  {tokens[j].value : j \in {k \in 1..Len(tokens) : tokens[k].type = "IDENTIFIER"}}

C30_NamesAreIdentifiers ==
  /\ \A i \in 1..Len(variables) : variables[i].name \in IdentifierValues
  /\ \A i \in 1..Len(procedures) : procedures[i].name \in IdentifierValues

====
